---- MODULE Spec2Model ----
(***************************************************************************)
(* Model of the matching engine of the recruitment backend:                *)
(*   src/src/utils.rs              calculate_skill_match_score,            *)
(*                                 calculate_experience_score              *)
(*   src/src/handlers/matching.rs  find_matches, find_jobs_for_worker,     *)
(*                                 get_matching_stats                      *)
(*   src/src/handlers/workers.rs, jobs.rs  the normalisation (sort, dedup) *)
(*                                 of the skill lists the handlers store   *)
(*   src/src/handlers/clients.rs   delete_client                           *)
(*   src/src/handlers/jobs.rs      create_job, update_job                  *)
(*   src/src/handlers/workers.rs   create_worker, update_worker            *)
(*   src/src/handlers/meetings.rs  create_meeting, update_meeting,         *)
(*                                 update_meeting_status, delete_meeting   *)
(*   src/src/utils.rs              PaginationParams::new                   *)
(*   src/src/database.rs           the tables and their sample rows        *)
(*   src/src/error.rs              AppError::NotFound, DatabaseError       *)
(*                                                                         *)
(* Scores are f64 in the code.  They are modelled as exact rationals       *)
(* <<numerator, denominator>> in lowest terms, so equality and order of    *)
(* scores are those of the real numbers the f64 expressions denote.  The   *)
(* f64 values that are not finite have the denominator 0.                  *)
(*                                                                         *)
(* A skill tag is a String in the code.  Tags are modelled as the integers *)
(* 1..NumTags, the integer order standing for the order of String (the one *)
(* Vec::sort uses): 1 = "Docker", 2 = "Go", 3 = "SQL".                     *)
(***************************************************************************)
EXTENDS Integers, Sequences, FiniteSets, TLC

VARIABLES
    job_postings,   \* table job_postings, in the order ORDER BY created_at DESC yields
    workers,        \* table workers, in the order ORDER BY created_at DESC yields
    request,        \* the request being served: handler, path id, query
    locals,         \* the handler's local values: anchor, pool, min_score, limit, survivors, sorted
    response,       \* the handler's result
    query_results,  \* the results of the handler's queries so far, "Ok" or "Err" each
    job_skills,     \* calculate_skill_match_score: first argument
    worker_skills,  \* calculate_skill_match_score: second argument
    skill_result,   \* calculate_skill_match_score: returned value, <<>> before the call
    years_experience_arg,   \* calculate_experience_score: first argument
    required_years_arg,     \* calculate_experience_score: second argument
    experience_result,  \* calculate_experience_score: returned value, <<>> before the call
    scores,         \* sort_by: the scores of the vector to be sorted
    sort_result,    \* sort_by: the sorted scores or a panic, <<>> before the call
    recorded,       \* an earlier request with its response, as its caller received it
    stats_call,     \* get_matching_stats: the call's query results and response
    clients,        \* table clients: the ids of its rows
    client_calls,   \* the calls in progress that read or write clients and job_postings
    worker_call,    \* create_worker, update_worker: the last call and its result
    meetings,       \* table meetings
    meeting_call,   \* the meeting handlers: the last call and its result
    page_arg,       \* PaginationParams::new: first argument
    limit_arg,      \* PaginationParams::new: second argument
    build_profile,  \* whether the build checks integer overflow (debug) or wraps (release)
    pagination_result   \* PaginationParams::new: returned value or a panic

table_vars == <<job_postings, workers>>

handler_vars == <<request, locals, response, query_results>>

skill_vars == <<job_skills, worker_skills, skill_result>>

experience_vars == <<years_experience_arg, required_years_arg, experience_result>>

sort_vars == <<scores, sort_result>>

history_vars == <<recorded>>

stats_vars == <<stats_call>>

client_vars == <<clients, client_calls>>

worker_vars == <<worker_call>>

meeting_vars == <<meetings, meeting_call>>

pagination_vars == <<page_arg, limit_arg, build_profile, pagination_result>>

vars == <<table_vars, handler_vars, skill_vars, experience_vars, sort_vars,
          history_vars, stats_vars, client_vars, worker_vars, meeting_vars,
          pagination_vars>>

----------------------------------------------------------------------------
(* Bounds of the model *)

NumTags == 2
MaxSkills == 3
MaxYears == 3
MaxPool == 1
BulkPool == 101
MaxRequiredYears == 5
MaxScores == 3
MaxRows == 2
MaxClients == 1
MaxCalls == 2
NumAddresses == 2

(* Constants of the program *)

RequiredYears == 3
DefaultLimit == 50
MaxLimit == 100
DefaultPage == 1
DefaultPageLimit == 20
MaxPageLimit == 100

----------------------------------------------------------------------------
(* Sequences *)

Range(s) == {s[i] : i \in DOMAIN s}

SeqsUpTo(S, n) == UNION {[1..k -> S] : k \in 0..n}

Min(a, b) == IF a <= b THEN a ELSE b

Max(a, b) == IF a >= b THEN a ELSE b

----------------------------------------------------------------------------
(* f64 values, as exact rationals <<n, d>> with d > 0 in lowest terms *)

RECURSIVE GCD(_, _)
GCD(a, b) == IF b = 0 THEN a ELSE GCD(b, a % b)

Abs(x) == IF x < 0 THEN -x ELSE x

Rat(n, d) ==
    LET g == GCD(Abs(n), d)
    IN  <<n \div g, d \div g>>

FromInt(n) == <<n, 1>>

RatMul(a, b) == Rat(a[1] * b[1], a[2] * b[2])

RatDiv(a, b) == Rat(a[1] * b[2], a[2] * b[1])

RatAdd(a, b) == Rat(a[1] * b[2] + b[1] * a[2], a[2] * b[2])

RatGe(a, b) == a[1] * b[2] >= b[1] * a[2]

RatGt(a, b) == a[1] * b[2] > b[1] * a[2]

Zero == FromInt(0)

Hundred == FromInt(100)

\* The f64 values that are not finite: a denominator of 0
NaN == <<0, 0>>

Infinity == <<1, 0>>

NegInfinity == <<0 - 1, 0>>

is_finite(x) == x[2] > 0

is_nan(x) == x = NaN

\* x > y of f64: false when either is NaN
f64_gt(x, y) ==
    IF is_nan(x) \/ is_nan(y) THEN FALSE
    ELSE IF is_finite(x) /\ is_finite(y) THEN RatGt(x, y)
    ELSE IF x = Infinity THEN y # Infinity
    ELSE IF x = NegInfinity THEN FALSE
    ELSE y = NegInfinity

----------------------------------------------------------------------------
(* Option<T>: None is <<>>, Some(v) is <<v>> *)

None == <<>>

Some(v) == <<v>>

unwrap_or(opt, default) == IF opt = None THEN default ELSE opt[1]

\* Option::unwrap of a Some; of None it panics, and callers here test for that
unwrap(opt) == opt[1]

\* f64::partial_cmp: None when either value is NaN
partial_cmp(x, y) ==
    IF is_nan(x) \/ is_nan(y) THEN None
    ELSE IF f64_gt(y, x) THEN Some("Less")
    ELSE IF f64_gt(x, y) THEN Some("Greater")
    ELSE Some("Equal")

----------------------------------------------------------------------------
(* utils.rs: the two scorers *)

\* A scorer that counts the worker's matching list entries, repeated tags included
calculate_skill_match_score_counting_entries(job_skills_arg, worker_skills_arg) ==
    IF Len(job_skills_arg) = 0
    THEN Zero
    ELSE LET matching_skills ==
                 Cardinality({i \in DOMAIN worker_skills_arg :
                                  worker_skills_arg[i] \in Range(job_skills_arg)})
         IN  RatMul(RatDiv(FromInt(matching_skills), FromInt(Len(job_skills_arg))),
                    Hundred)

\* A scorer without the early return, an empty requirement list counting as met
calculate_skill_match_score_empty_is_full(job_skills_arg, worker_skills_arg) ==
    LET job_skills_set == Range(job_skills_arg)
        worker_skills_set == Range(worker_skills_arg)
        matching_skills == Cardinality(job_skills_set \cap worker_skills_set)
    IN  IF Len(job_skills_arg) = 0
        THEN Hundred
        ELSE RatMul(RatDiv(FromInt(matching_skills), FromInt(Len(job_skills_arg))),
                    Hundred)

\* utils.rs 113-125.  The two HashSets are the sets of the lists' elements; the
\* divisor is job_skills.len(), the length of the list, not of the set.
calculate_skill_match_score(job_skills_arg, worker_skills_arg) ==
    IF Len(job_skills_arg) = 0
    THEN Zero
    ELSE LET job_skills_set == Range(job_skills_arg)
             worker_skills_set == Range(worker_skills_arg)
             matching_skills == Cardinality(job_skills_set \cap worker_skills_set)
         IN  RatMul(RatDiv(FromInt(matching_skills), FromInt(Len(job_skills_arg))),
                    Hundred)

\* The comparison made against the clamped requirement
calculate_experience_score_clamped_comparison(years_experience, required_years) ==
    IF years_experience >= Max(required_years, 1)
    THEN Hundred
    ELSE RatMul(RatDiv(FromInt(years_experience), FromInt(Max(required_years, 1))),
                Hundred)

\* Full marks only for exactly the required years, no saturation beyond them
calculate_experience_score_exact_years(years_experience, required_years) ==
    IF years_experience = required_years
    THEN Hundred
    ELSE RatMul(RatDiv(FromInt(years_experience), FromInt(Max(required_years, 1))),
                Hundred)

\* utils.rs 127-133
calculate_experience_score(years_experience, required_years) ==
    IF years_experience >= required_years
    THEN Hundred
    ELSE RatMul(RatDiv(FromInt(years_experience), FromInt(Max(required_years, 1))),
                Hundred)

----------------------------------------------------------------------------
(* handlers/workers.rs 156-158, 230-232 and handlers/jobs.rs 192-194, 261-263: *)
(* a list is sorted and deduplicated before it is stored                       *)

\* Vec::sort: the list's elements in non-decreasing order
RECURSIVE sort(_)
sort(list) ==
    IF list = <<>>
    THEN <<>>
    ELSE LET x == Head(list)
             rest == sort(Tail(list))
             p == Cardinality({i \in DOMAIN rest : rest[i] <= x})
         IN  SubSeq(rest, 1, p) \o <<x>> \o SubSeq(rest, p + 1, Len(rest))

\* Vec::dedup: consecutive repeated elements removed
RECURSIVE dedup(_)
dedup(list) ==
    IF Len(list) <= 1
    THEN list
    ELSE IF list[1] = list[2]
         THEN dedup(Tail(list))
         ELSE <<list[1]>> \o dedup(Tail(list))

normalise(list) == dedup(sort(list))

Tags == 1..NumTags

\* The lists a request may carry
RequestLists == SeqsUpTo(Tags, MaxSkills)

\* The lists a table may hold
StoredLists == {normalise(list) : list \in RequestLists}

----------------------------------------------------------------------------
(* handlers/matching.rs: the steps of find_matches and find_jobs_for_worker *)

\* The weights exchanged
total_score_weights_swapped(skill_score, experience_score) ==
    RatAdd(RatMul(skill_score, <<3, 10>>), RatMul(experience_score, <<7, 10>>))

\* Weights that do not add up to 1
total_score_weights_not_normalised(skill_score, experience_score) ==
    RatAdd(RatMul(skill_score, <<7, 10>>), RatMul(experience_score, <<7, 10>>))

\* matching.rs 57, 133
total_score(skill_score, experience_score) ==
    RatAdd(RatMul(skill_score, <<7, 10>>), RatMul(experience_score, <<3, 10>>))

\* matching.rs 55-57, 131-133: the score of a job and a worker
pair_score(job, worker) ==
    total_score(calculate_skill_match_score(job.requirements, worker.skills),
                calculate_experience_score(worker.experience_years, RequiredYears))

\* A strict threshold
passes_min_score_strict(score, min_score) == RatGt(score, min_score)

\* matching.rs 59, 135
passes_min_score(score, min_score) == RatGe(score, min_score)

\* The filter left out: all of the pool element's own tags
matching_skills_of_unfiltered(own, other) == own

\* The two lists exchanged: the other side's tags that the pool element has
matching_skills_of_anchor_order(own, other) ==
    SelectSeq(other, LAMBDA skill : skill \in Range(own))

\* The matching tags collected back to front
matching_skills_of_reversed(own, other) ==
    LET matching == SelectSeq(own, LAMBDA skill : skill \in Range(other))
    IN  [k \in DOMAIN matching |-> matching[Len(matching) + 1 - k]]

\* matching.rs 60-64 (own = worker.skills, other = job.requirements),
\* 136-140 (own = job.requirements, other = worker.skills)
matching_skills_of(own, other) ==
    SelectSeq(own, LAMBDA skill : skill \in Range(other))

\* matching.rs 54-72: the loop over the workers, match_scores as it leaves the loop
score_workers(job, pool, min_score) ==
    LET scored == [i \in DOMAIN pool |->
                      [entity |-> pool[i],
                       score |-> pair_score(job, pool[i]),
                       matching_skills |->
                           matching_skills_of(pool[i].skills, job.requirements)]]
    IN  SelectSeq(scored, LAMBDA ms : passes_min_score(ms.score, min_score))

\* The skill score taken the other way round: the share of the worker's skills
\* that the job requires
score_jobs_by_worker_coverage(worker, pool, min_score) ==
    LET scored == [i \in DOMAIN pool |->
                      [entity |-> pool[i],
                       score |-> total_score(
                           calculate_skill_match_score(worker.skills,
                                                       pool[i].requirements),
                           calculate_experience_score(worker.experience_years,
                                                      RequiredYears)),
                       matching_skills |->
                           matching_skills_of(pool[i].requirements, worker.skills)]]
    IN  SelectSeq(scored, LAMBDA jm : passes_min_score(jm.score, min_score))

\* matching.rs 130-148: the loop over the jobs, job_matches as it leaves the loop
score_jobs(worker, pool, min_score) ==
    LET scored == [i \in DOMAIN pool |->
                      [entity |-> pool[i],
                       score |-> pair_score(pool[i], worker),
                       matching_skills |->
                           matching_skills_of(pool[i].requirements, worker.skills)]]
    IN  SelectSeq(scored, LAMBDA jm : passes_min_score(jm.score, min_score))

\* The comparator of matching.rs 75, 151:
\* |a, b| b.score.partial_cmp(&a.score).unwrap(), Less when a's score is the greater
compare(a, b) == unwrap(partial_cmp(b.score, a.score))

\* The unwrap of the comparator panics on some pair the sort compares: a sort of
\* two or more elements compares each element with another one at least once
sort_by_panics(v) ==
    \E i, j \in DOMAIN v : i # j /\ partial_cmp(v[j].score, v[i].score) = None

\* Ties put in reverse: what an unstable sort may do
comes_before_unstable(v, i, j) ==
    \/ compare(v[i], v[j]) = "Less"
    \/ compare(v[i], v[j]) = "Equal" /\ i > j

\* The comparator's arguments exchanged: ascending by score
comes_before_ascending(v, i, j) ==
    \/ compare(v[j], v[i]) = "Less"
    \/ compare(v[j], v[i]) = "Equal" /\ i < j

\* slice::sort_by is stable: v[i] precedes v[j] in the sorted vector when the
\* comparator orders it first, or orders the two as equal and i < j
comes_before(v, i, j) ==
    \/ compare(v[i], v[j]) = "Less"
    \/ compare(v[i], v[j]) = "Equal" /\ i < j

\* matching.rs 74-75, 150-151: match_scores.sort_by(...).  The result of a stable
\* sort is unique: v[i] lands at the position that the number of other elements
\* preceding it gives.
sort_by_score_desc(v) ==
    LET position == [i \in DOMAIN v |->
                        1 + Cardinality({j \in DOMAIN v \ {i} : comes_before(v, j, i)})]
    IN  [p \in DOMAIN v |-> v[CHOOSE i \in DOMAIN v : position[i] = p]]

\* The cap and the default of the listing endpoints
effective_limit_uncapped(limit) == unwrap_or(limit, 20)

\* matching.rs 50, 126: query.limit.unwrap_or(50).min(100)
effective_limit(limit) == Min(unwrap_or(limit, DefaultLimit), MaxLimit)

\* matching.rs 49, 125: query.min_score.unwrap_or(0.0)
effective_min_score(min_score) == unwrap_or(min_score, Zero)

\* matching.rs 78, 154: Vec::truncate
truncate(v, len) == SubSeq(v, 1, Min(len, Len(v)))

\* matching.rs 80-83, 156-159
entities_of(match_scores) == [i \in DOMAIN match_scores |-> match_scores[i].entity]

\* error.rs: AppError::NotFound, returned by .ok_or(AppError::NotFound)?
not_found ==
    [status |-> "NotFound",
     anchor |-> None,
     matched |-> <<>>,
     match_count |-> 0,
     match_scores |-> <<>>]

\* An empty result reported as a failure
success_not_found_when_empty(anchor, sorted, limit) ==
    LET match_scores == truncate(sorted, limit)
    IN  IF match_scores = <<>>
        THEN not_found
        ELSE [status |-> "Ok",
              anchor |-> anchor,
              matched |-> entities_of(match_scores),
              match_count |-> Len(match_scores),
              match_scores |-> match_scores]

\* A response whose count is taken before the truncation
success_counting_survivors(anchor, sorted, limit) ==
    LET match_scores == truncate(sorted, limit)
    IN  [status |-> "Ok",
         anchor |-> anchor,
         matched |-> entities_of(match_scores),
         match_count |-> Len(sorted),
         match_scores |-> match_scores]

\* matching.rs 77-92 (JobMatchResponse: job, matched_workers, match_count,
\* match_scores) and 153-168 (worker, matched_jobs, match_count, job_matches)
success(anchor, sorted, limit) ==
    LET match_scores == truncate(sorted, limit)
        matched == entities_of(match_scores)
    IN  [status |-> "Ok",
         anchor |-> anchor,
         matched |-> matched,
         match_count |-> Len(matched),
         match_scores |-> match_scores]

\* error.rs 43-47: AppError::DatabaseError, returned by .await? on a failed query
database_error ==
    [status |-> "DatabaseError",
     anchor |-> None,
     matched |-> <<>>,
     match_count |-> 0,
     match_scores |-> <<>>]

no_response ==
    [status |-> "none",
     anchor |-> None,
     matched |-> <<>>,
     match_count |-> 0,
     match_scores |-> <<>>]

no_locals ==
    [pool |-> <<>>, min_score |-> Zero, limit |-> 0, survivors |-> <<>>, sorted |-> <<>>]

no_request == [handler |-> "none", id |-> 0, query |-> [min_score |-> None, limit |-> None]]

----------------------------------------------------------------------------
(* The values of the variables a specification does not use *)

matching_idle ==
    /\ request = no_request
    /\ locals = no_locals
    /\ response = no_response
    /\ query_results = <<>>
    /\ recorded = None

scorers_idle ==
    /\ job_skills = <<>>
    /\ worker_skills = <<>>
    /\ skill_result = None
    /\ years_experience_arg = 0
    /\ required_years_arg = 0
    /\ experience_result = None
    /\ scores = <<>>
    /\ sort_result = None

stats_idle == stats_call = None

clients_idle ==
    /\ clients = {}
    /\ client_calls = <<>>

workers_idle == worker_call = None

meetings_idle ==
    /\ meetings = <<>>
    /\ meeting_call = None

pagination_idle ==
    /\ page_arg = None
    /\ limit_arg = None
    /\ build_profile = "release"
    /\ pagination_result = None

----------------------------------------------------------------------------
(* The tables *)

WorkerValues == [skills : StoredLists, experience_years : 0..MaxYears]

JobValues == [requirements : StoredLists, is_active : BOOLEAN]

\* The rows of table workers: the primary key is the position
worker_rows(values) ==
    [i \in DOMAIN values |->
        [id |-> i, skills |-> values[i].skills,
         experience_years |-> values[i].experience_years]]

\* The rows of table job_postings: the primary key is the position
job_rows(values) ==
    [i \in DOMAIN values |->
        [id |-> i, requirements |-> values[i].requirements,
         is_active |-> values[i].is_active]]

\* A table of more workers than any limit
bulk_workers ==
    [i \in 1..BulkPool |->
        [id |-> i,
         skills |-> [k \in 1..(i % (NumTags + 1)) |-> k],
         experience_years |-> (i \div 2) % (MaxYears + 1)]]

\* A table of more jobs than any limit, all of them active or one in seven not
bulk_jobs(all_active) ==
    [i \in 1..BulkPool |->
        [id |-> i,
         requirements |-> [k \in 1..(i % (NumTags + 1)) |-> k],
         is_active |-> all_active \/ i % 7 # 0]]

----------------------------------------------------------------------------
(* The requests *)

MinScores == {None, Some(FromInt(80)), Some(FromInt(101))}

Limits == {None, Some(0), Some(1), Some(BulkPool)}

Queries ==
    [min_score : MinScores, limit : Limits]
        \cup {[min_score |-> Some(Zero), limit |-> Some(10)]}

Ids == 1..MaxPool

\* What the database answers to the handler's first and second query
DbResults == [1..2 -> {"Ok", "Err"}]

\* A request's query and the database's answers while it is served: every query
\* with both answers Ok, and a query without parameters with every answer
Inputs ==
    {<<query, <<"Ok", "Ok">>>> : query \in Queries}
        \cup {<<no_request.query, db>> : db \in DbResults}

----------------------------------------------------------------------------
(* The handlers.  A handler's locals and its response belong to one request:   *)
(* a handler starts on a request with fresh locals, reads the tables, and its   *)
(* response is sent before the model takes up the next request.  The handlers   *)
(* write to no table, so requests served one after the other reach every state *)
(* that requests served at once reach.                                         *)

\* The job looked up by its id alone, active or not
fetch_job_any_status(job_id) ==
    SelectSeq(job_postings, LAMBDA j : j.id = job_id)

\* matching.rs 25-34: SELECT ... FROM job_postings WHERE id = $1 AND is_active = true
fetch_job(job_id) ==
    SelectSeq(job_postings, LAMBDA j : j.id = job_id /\ j.is_active)

\* matching.rs 100-109: SELECT ... FROM workers WHERE id = $1
fetch_worker(worker_id) ==
    SelectSeq(workers, LAMBDA w : w.id = worker_id)

\* A handler that closes the job it has found workers for
find_matches_closing_job(job_id, query, db) ==
    LET found == fetch_job(job_id)
    IN  /\ request = no_request
        /\ request' = [handler |-> "find_matches", id |-> job_id, query |-> query]
        /\ IF db[1] = "Err" \/ found = <<>> \/ db[2] = "Err"
           THEN /\ query_results' = IF db[1] = "Err" THEN <<"Err">>
                                    ELSE IF found = <<>> THEN <<"Ok">>
                                    ELSE <<"Ok", "Err">>
                /\ locals' = no_locals
                /\ response' = IF db[1] = "Ok" /\ found = <<>>
                               THEN not_found ELSE database_error
                /\ UNCHANGED table_vars
           ELSE LET job == found[1]
                    min_score == effective_min_score(query.min_score)
                    limit == effective_limit(query.limit)
                    survivors == score_workers(job, workers, min_score)
                    sorted == sort_by_score_desc(survivors)
                IN  /\ query_results' = <<"Ok", "Ok">>
                    /\ locals' = [pool |-> workers, min_score |-> min_score,
                                  limit |-> limit, survivors |-> survivors,
                                  sorted |-> sorted]
                    /\ response' = success(job, sorted, limit)
                    /\ job_postings' =
                           [i \in DOMAIN job_postings |->
                               IF job_postings[i].id = job_id /\ sorted # <<>>
                               THEN [job_postings[i] EXCEPT !.is_active = FALSE]
                               ELSE job_postings[i]]
                    /\ workers' = workers
        /\ UNCHANGED <<skill_vars, experience_vars, sort_vars,
                       history_vars, stats_vars, client_vars, worker_vars,
                       meeting_vars, pagination_vars>>

\* matching.rs 20-93
find_matches(job_id, query, db) ==
    LET found == fetch_job(job_id)
    IN  /\ request = no_request
        /\ request' = [handler |-> "find_matches", id |-> job_id, query |-> query]
        /\ IF db[1] = "Err"
           THEN /\ query_results' = <<"Err">>
                /\ locals' = no_locals
                /\ response' = database_error
           ELSE IF found = <<>>
           THEN /\ query_results' = <<"Ok">>
                /\ locals' = no_locals
                /\ response' = not_found
           ELSE IF db[2] = "Err"
           THEN /\ query_results' = <<"Ok", "Err">>
                /\ locals' = no_locals
                /\ response' = database_error
           ELSE LET job == found[1]
                    pool == workers
                    min_score == effective_min_score(query.min_score)
                    limit == effective_limit(query.limit)
                    survivors == score_workers(job, pool, min_score)
                    sorted == sort_by_score_desc(survivors)
                IN  /\ query_results' = <<"Ok", "Ok">>
                    /\ locals' = [pool |-> pool, min_score |-> min_score,
                                  limit |-> limit, survivors |-> survivors,
                                  sorted |-> sorted]
                    /\ response' = success(job, sorted, limit)
        /\ UNCHANGED <<table_vars, skill_vars, experience_vars, sort_vars,
                       history_vars, stats_vars, client_vars, worker_vars,
                       meeting_vars, pagination_vars>>

\* matching.rs 95-169
find_jobs_for_worker(worker_id, query, db) ==
    LET found == fetch_worker(worker_id)
    IN  /\ request = no_request
        /\ request' = [handler |-> "find_jobs_for_worker", id |-> worker_id,
                       query |-> query]
        /\ IF db[1] = "Err"
           THEN /\ query_results' = <<"Err">>
                /\ locals' = no_locals
                /\ response' = database_error
           ELSE IF found = <<>>
           THEN /\ query_results' = <<"Ok">>
                /\ locals' = no_locals
                /\ response' = not_found
           ELSE IF db[2] = "Err"
           THEN /\ query_results' = <<"Ok", "Err">>
                /\ locals' = no_locals
                /\ response' = database_error
           ELSE LET worker == found[1]
                    pool == SelectSeq(job_postings, LAMBDA j : j.is_active)
                    min_score == effective_min_score(query.min_score)
                    limit == effective_limit(query.limit)
                    survivors == score_jobs(worker, pool, min_score)
                    sorted == sort_by_score_desc(survivors)
                IN  /\ query_results' = <<"Ok", "Ok">>
                    /\ locals' = [pool |-> pool, min_score |-> min_score,
                                  limit |-> limit, survivors |-> survivors,
                                  sorted |-> sorted]
                    /\ response' = success(worker, sorted, limit)
        /\ UNCHANGED <<table_vars, skill_vars, experience_vars, sort_vars,
                       history_vars, stats_vars, client_vars, worker_vars,
                       meeting_vars, pagination_vars>>

\* matching.rs 36, 47, 92 and 111, 123, 168: the Result is returned to the caller
\* and the handler's locals are dropped
send_response ==
    /\ request # no_request
    /\ request' = no_request
    /\ locals' = no_locals
    /\ response' = no_response
    /\ query_results' = <<>>
    /\ UNCHANGED <<table_vars, skill_vars, experience_vars, sort_vars,
                   history_vars, stats_vars, client_vars, worker_vars,
                   meeting_vars, pagination_vars>>

----------------------------------------------------------------------------
(* Spec: the matching endpoints over the tables the handlers can have filled.  *)
(* The tables are: one job and up to MaxPool workers of every value; up to      *)
(* MaxPool jobs of every value and one worker; one job and BulkPool workers;    *)
(* BulkPool jobs and one worker; the scenario's job and its two workers; a     *)
(* sample row of run_migrations with a row a handler stored.                   *)

\* The scenario of the specification: the job requires Go, SQL, Docker; worker A
\* has Go, SQL and 4 years, worker B has Go, SQL, Docker and 1 year
scenario_job == [requirements |-> <<1, 2, 3>>, is_active |-> TRUE]

scenario_worker_A == [skills |-> <<2, 3>>, experience_years |-> 4]

scenario_worker_B == [skills |-> <<1, 2, 3>>, experience_years |-> 1]

\* database.rs 131-151: the sample rows run_migrations inserts, their lists as
\* written there.  Worker Jane Smith has Python, Django, PostgreSQL and 3 years,
\* job Backend Engineer requires Python, Django, PostgreSQL: in the order of
\* String the third, the first and the second of the three tags.
seed_worker == [skills |-> <<3, 1, 2>>, experience_years |-> 3]

seed_job == [requirements |-> <<3, 1, 2>>, is_active |-> TRUE]

\* A worker and a job the handlers have stored with the tags of the sample rows
created_worker == [skills |-> normalise(seed_job.requirements), experience_years |-> 1]

created_job == [requirements |-> normalise(seed_worker.skills), is_active |-> TRUE]

InitTables ==
    \/ \E j \in JobValues, ws \in SeqsUpTo(WorkerValues, MaxPool) :
          /\ job_postings = job_rows(<<j>>)
          /\ workers = worker_rows(ws)
    \/ \E js \in SeqsUpTo(JobValues, MaxPool), w \in WorkerValues :
          /\ job_postings = job_rows(js)
          /\ workers = worker_rows(<<w>>)
    \/ /\ job_postings = job_rows(<<[requirements |-> [k \in 1..NumTags |-> k],
                                    is_active |-> TRUE]>>)
       /\ workers = bulk_workers
    \/ \E all_active \in BOOLEAN :
          /\ job_postings = bulk_jobs(all_active)
          /\ workers = worker_rows(<<[skills |-> <<1>>, experience_years |-> 1]>>)
    \/ /\ job_postings = job_rows(<<scenario_job>>)
       /\ workers \in {worker_rows(<<scenario_worker_A, scenario_worker_B>>),
                       worker_rows(<<scenario_worker_B, scenario_worker_A>>)}
    \/ \E j \in {seed_job, created_job}, w \in {seed_worker, created_worker} :
          /\ job_postings = job_rows(<<j>>)
          /\ workers = worker_rows(<<w>>)

Init ==
    /\ InitTables
    /\ request = no_request
    /\ locals = no_locals
    /\ response = no_response
    /\ query_results = <<>>
    /\ job_skills = <<>>
    /\ worker_skills = <<>>
    /\ skill_result = None
    /\ years_experience_arg = 0
    /\ required_years_arg = 0
    /\ experience_result = None
    /\ scores = <<>>
    /\ sort_result = None
    /\ recorded = None
    /\ stats_idle
    /\ clients_idle
    /\ workers_idle
    /\ meetings_idle
    /\ pagination_idle

Next ==
    \/ \E job_id \in Ids, input \in Inputs :
          find_matches(job_id, input[1], input[2])
    \/ \E worker_id \in Ids, input \in Inputs :
          find_jobs_for_worker(worker_id, input[1], input[2])
    \/ send_response

Spec == Init /\ [][Next]_vars

----------------------------------------------------------------------------
(* SpecRepeat: the matching endpoints called again and again on the same       *)
(* tables, one earlier request kept with its response as the caller saw it     *)

\* matching.rs 92, 168: the Result is returned to the caller, who keeps it
remember_response ==
    /\ request # no_request
    /\ recorded = None
    /\ recorded' = Some([request |-> request, query_results |-> query_results,
                         response |-> response])
    /\ request' = no_request
    /\ locals' = no_locals
    /\ response' = no_response
    /\ query_results' = <<>>
    /\ UNCHANGED <<table_vars, skill_vars, experience_vars, sort_vars,
                   stats_vars, client_vars, worker_vars, meeting_vars,
                   pagination_vars>>

InitRepeat ==
    /\ \/ \E j \in JobValues, w \in WorkerValues :
             /\ job_postings = job_rows(<<j>>)
             /\ workers = worker_rows(<<w>>)
       \/ /\ job_postings = job_rows(<<scenario_job>>)
          /\ workers \in {worker_rows(<<scenario_worker_A, scenario_worker_B,
                                        seed_worker>>),
                          worker_rows(<<seed_worker, scenario_worker_B,
                                        scenario_worker_A>>)}
       \/ /\ job_postings = job_rows(<<seed_job, scenario_job, created_job>>)
          /\ workers = worker_rows(<<scenario_worker_B>>)
       \/ \E j \in {seed_job, created_job}, w \in {seed_worker, created_worker} :
             /\ job_postings = job_rows(<<j>>)
             /\ workers = worker_rows(<<w>>)
    /\ matching_idle
    /\ scorers_idle
    /\ stats_idle
    /\ clients_idle
    /\ workers_idle
    /\ meetings_idle
    /\ pagination_idle

NextRepeat ==
    \/ \E job_id \in Ids, input \in Inputs :
          find_matches(job_id, input[1], input[2])
    \/ \E worker_id \in Ids, input \in Inputs :
          find_jobs_for_worker(worker_id, input[1], input[2])
    \/ send_response
    \/ remember_response

SpecRepeat == InitRepeat /\ [][NextRepeat]_vars

----------------------------------------------------------------------------
(* SpecStats: get_matching_stats over tables of a few rows.  Its four queries   *)
(* are aggregates PostgreSQL computes; COUNT, AVG and array_length are modelled *)
(* by what PostgreSQL does for them.                                            *)

\* COUNT(*) over every job, active or not
count_active_jobs_any_status(jobs) == Len(jobs)

\* matching.rs 182: SELECT COUNT(*) FROM job_postings WHERE is_active = true
count_active_jobs(jobs) == Len(SelectSeq(jobs, LAMBDA job : job.is_active))

\* matching.rs 189: SELECT COUNT(*) FROM workers
count_workers(rows) == Len(rows)

\* An array length that is 0 for the empty array
array_length_zero_when_empty(list) == Some(Len(list))

\* matching.rs 196, 203: array_length(list, 1), NULL for an array without elements
array_length(list) == IF list = <<>> THEN None ELSE Some(Len(list))

RECURSIVE sum_of(_)
sum_of(values) ==
    IF values = <<>> THEN 0 ELSE unwrap(Head(values)) + sum_of(Tail(values))

\* matching.rs 196, 203: AVG over a column: the NULLs are left out, and the
\* average of no value is NULL
AVG(column) ==
    LET present == SelectSeq(column, LAMBDA value : value # None)
    IN  IF present = <<>> THEN None
        ELSE Some(Rat(sum_of(present), Len(present)))

\* matching.rs 195-200
avg_requirements_of(jobs) ==
    LET selected == SelectSeq(jobs, LAMBDA job : job.is_active)
    IN  unwrap_or(AVG([i \in DOMAIN selected |->
                          array_length(selected[i].requirements)]), Zero)

\* matching.rs 202-207
avg_skills_of(rows) ==
    unwrap_or(AVG([i \in DOMAIN rows |-> array_length(rows[i].skills)]), Zero)

\* matching.rs 209-217
stats_success(total_jobs, total_workers, avg_requirements, avg_skills) ==
    [status |-> "Ok",
     total_active_jobs |-> total_jobs,
     total_workers |-> total_workers,
     average_requirements_per_job |-> avg_requirements,
     average_skills_per_worker |-> avg_skills,
     potential_matches |-> total_jobs * total_workers]

\* error.rs 43-47: a failed query, through the operator ?
stats_database_error == [status |-> "DatabaseError"]

\* What the database answers to each of the four queries
StatsDbResults == [1..4 -> {"Ok", "Err"}]

\* matching.rs 178-218
get_matching_stats(db) ==
    LET failed == {q \in 1..4 : db[q] = "Err"}
        answered == IF failed = {} THEN 4
                    ELSE CHOOSE q \in failed : \A other \in failed : q <= other
    IN  /\ stats_call = None
        /\ stats_call' =
              Some([query_results |-> [q \in 1..answered |-> db[q]],
                    response |->
                        IF failed # {} THEN stats_database_error
                        ELSE stats_success(count_active_jobs(job_postings),
                                           count_workers(workers),
                                           avg_requirements_of(job_postings),
                                           avg_skills_of(workers))])
        /\ UNCHANGED <<table_vars, handler_vars, skill_vars, experience_vars,
                       sort_vars, history_vars, client_vars, worker_vars,
                       meeting_vars, pagination_vars>>

\* matching.rs 217: the response leaves the handler
send_stats_response ==
    /\ stats_call # None
    /\ stats_call' = None
    /\ UNCHANGED <<table_vars, handler_vars, skill_vars, experience_vars,
                   sort_vars, history_vars, client_vars, worker_vars,
                   meeting_vars, pagination_vars>>

\* A list of n tags
list_of_size(n) == [k \in 1..n |-> k]

StatsJobValues ==
    [requirements : {list_of_size(n) : n \in 0..MaxSkills}, is_active : BOOLEAN]

StatsWorkerValues ==
    [skills : {list_of_size(n) : n \in 0..MaxSkills}, experience_years : {0}]

\* The scenario of the specification: two active jobs with 3 and 1 requirements,
\* three workers with 3 skills each
stats_scenario_jobs ==
    job_rows(<<[requirements |-> list_of_size(3), is_active |-> TRUE],
               [requirements |-> list_of_size(1), is_active |-> TRUE]>>)

stats_scenario_workers ==
    worker_rows([i \in 1..3 |-> [skills |-> list_of_size(3), experience_years |-> i]])

InitStats ==
    /\ \/ \E js \in SeqsUpTo(StatsJobValues, MaxRows),
             ws \in SeqsUpTo(StatsWorkerValues, MaxRows) :
             /\ job_postings = job_rows(js)
             /\ workers = worker_rows(ws)
       \/ /\ job_postings = stats_scenario_jobs
          /\ workers = stats_scenario_workers
    /\ matching_idle
    /\ scorers_idle
    /\ stats_idle
    /\ clients_idle
    /\ workers_idle
    /\ meetings_idle
    /\ pagination_idle

NextStats ==
    \/ \E db \in StatsDbResults : get_matching_stats(db)
    \/ send_stats_response

SpecStats == InitStats /\ [][NextStats]_vars

----------------------------------------------------------------------------
(* SpecClients: delete_client, create_job and update_job called at once.  Each  *)
(* handler is a sequence of queries on the pool, outside any transaction: a     *)
(* step of the model is one query with the test that follows it, and the steps  *)
(* of the calls in progress interleave.  A row of job_postings carries its      *)
(* client_id here.                                                              *)

ClientIds == 1..MaxClients

Calls == 1..MaxCalls

\* A call that has not started
no_call ==
    [handler |-> "none", pc |-> "idle", id |-> 0, client_id |-> 0,
     requirements |-> <<>>, is_active |-> None, result |-> None]

\* The variables the client and job handlers leave alone
client_frame ==
    <<workers, handler_vars, skill_vars, experience_vars, sort_vars, history_vars,
      stats_vars, worker_vars, meeting_vars, pagination_vars>>

\* jobs.rs 163-166, models.rs 104-113: CreateJobRequest; text_present says
\* whether title, description and location are all non-empty after trim
JobRequests ==
    [client_id : ClientIds, requirements : {<<2, 1>>},
     is_active : {None, Some(FALSE)}, text_present : BOOLEAN]

\* database.rs 42-54: the rows of job_postings with their client_id
client_job_rows(values) ==
    [i \in DOMAIN values |->
        [id |-> i, client_id |-> values[i].client_id,
         requirements |-> <<1>>, is_active |-> values[i].is_active]]

\* Uuid::new_v4(): an id no other row has
new_job_id(call) == MaxRows + call

in_progress(call, handler, pc) ==
    /\ client_calls[call].handler = handler
    /\ client_calls[call].pc = pc

returns(call, result) ==
    client_calls' = [client_calls EXCEPT ![call].pc = "done",
                                        ![call].result = Some(result)]

continues(call, pc) ==
    client_calls' = [client_calls EXCEPT ![call].pc = pc]

\* clients.rs 209-212: the handler is entered
call_delete_client(call, id) ==
    /\ client_calls[call] = no_call
    /\ client_calls' = [client_calls EXCEPT ![call] =
                           [no_call EXCEPT !.handler = "delete_client",
                                           !.pc = "exists", !.id = id]]
    /\ UNCHANGED <<job_postings, clients, client_frame>>

\* clients.rs 214-223: SELECT COUNT(*) FROM clients WHERE id = $1
delete_client_exists(call) ==
    /\ in_progress(call, "delete_client", "exists")
    /\ IF client_calls[call].id \notin clients
       THEN returns(call, "NotFound")
       ELSE continues(call, "active_jobs")
    /\ UNCHANGED <<job_postings, clients, client_frame>>

\* clients.rs 226-235: SELECT COUNT(*) FROM job_postings WHERE client_id = $1
\* AND is_active = true
delete_client_active_jobs(call) ==
    /\ in_progress(call, "delete_client", "active_jobs")
    /\ IF \E i \in DOMAIN job_postings :
             /\ job_postings[i].client_id = client_calls[call].id
             /\ job_postings[i].is_active
       THEN returns(call, "BadRequest")
       ELSE continues(call, "delete")
    /\ UNCHANGED <<job_postings, clients, client_frame>>

\* clients.rs 237-248: DELETE FROM clients WHERE id = $1, and database.rs 44:
\* ON DELETE CASCADE removes the client's rows of job_postings
delete_client_delete(call) ==
    /\ in_progress(call, "delete_client", "delete")
    /\ IF client_calls[call].id \notin clients
       THEN /\ returns(call, "NotFound")
            /\ UNCHANGED <<job_postings, clients>>
       ELSE /\ clients' = clients \ {client_calls[call].id}
            /\ job_postings' =
                  SelectSeq(job_postings,
                            LAMBDA job : job.client_id # client_calls[call].id)
            /\ returns(call, "Ok")
    /\ UNCHANGED client_frame

\* jobs.rs 163-178: the handler is entered and the request validated
call_create_job(call, job_request) ==
    /\ client_calls[call] = no_call
    /\ client_calls' = [client_calls EXCEPT ![call] =
          [handler |-> "create_job",
           pc |-> IF job_request.text_present THEN "client" ELSE "done",
           id |-> 0,
           client_id |-> job_request.client_id,
           requirements |-> job_request.requirements,
           is_active |-> job_request.is_active,
           result |-> IF job_request.text_present THEN None
                      ELSE Some("BadRequest")]]
    /\ UNCHANGED <<job_postings, clients, client_frame>>

\* jobs.rs 181-190: SELECT COUNT(*) FROM clients WHERE id = $1
create_job_client_exists(call) ==
    /\ in_progress(call, "create_job", "client")
    /\ IF client_calls[call].client_id \notin clients
       THEN returns(call, "BadRequest")
       ELSE continues(call, "insert")
    /\ UNCHANGED <<job_postings, clients, client_frame>>

\* jobs.rs 193-216: sort, dedup, INSERT INTO job_postings; database.rs 44: the
\* insert fails when client_id references no row of clients
create_job_insert(call) ==
    /\ in_progress(call, "create_job", "insert")
    /\ IF client_calls[call].client_id \notin clients
       THEN /\ returns(call, "DatabaseError")
            /\ UNCHANGED job_postings
       ELSE /\ job_postings' =
                  Append(job_postings,
                         [id |-> new_job_id(call),
                          client_id |-> client_calls[call].client_id,
                          requirements |-> normalise(client_calls[call].requirements),
                          is_active |-> unwrap_or(client_calls[call].is_active, TRUE)])
            /\ returns(call, "Ok")
    /\ UNCHANGED <<clients, client_frame>>

\* jobs.rs 219-235: the handler is entered and the request validated
call_update_job(call, id, job_request) ==
    /\ client_calls[call] = no_call
    /\ client_calls' = [client_calls EXCEPT ![call] =
          [handler |-> "update_job",
           pc |-> IF job_request.text_present THEN "exists" ELSE "done",
           id |-> id,
           client_id |-> job_request.client_id,
           requirements |-> job_request.requirements,
           is_active |-> job_request.is_active,
           result |-> IF job_request.text_present THEN None
                      ELSE Some("BadRequest")]]
    /\ UNCHANGED <<job_postings, clients, client_frame>>

\* jobs.rs 238-247: SELECT COUNT(*) FROM job_postings WHERE id = $1
update_job_exists(call) ==
    /\ in_progress(call, "update_job", "exists")
    /\ IF \A i \in DOMAIN job_postings : job_postings[i].id # client_calls[call].id
       THEN returns(call, "NotFound")
       ELSE continues(call, "client")
    /\ UNCHANGED <<job_postings, clients, client_frame>>

\* jobs.rs 250-259: SELECT COUNT(*) FROM clients WHERE id = $1
update_job_client_exists(call) ==
    /\ in_progress(call, "update_job", "client")
    /\ IF client_calls[call].client_id \notin clients
       THEN returns(call, "BadRequest")
       ELSE continues(call, "update")
    /\ UNCHANGED <<job_postings, clients, client_frame>>

\* jobs.rs 262-287: sort, dedup, UPDATE job_postings ... WHERE id = $9 with
\* fetch_one: an error when no row is returned or client_id references no client
update_job_update(call) ==
    /\ in_progress(call, "update_job", "update")
    /\ IF \/ client_calls[call].client_id \notin clients
          \/ \A i \in DOMAIN job_postings : job_postings[i].id # client_calls[call].id
       THEN /\ returns(call, "DatabaseError")
            /\ UNCHANGED job_postings
       ELSE /\ job_postings' =
                  [i \in DOMAIN job_postings |->
                      IF job_postings[i].id = client_calls[call].id
                      THEN [id |-> job_postings[i].id,
                            client_id |-> client_calls[call].client_id,
                            requirements |->
                                normalise(client_calls[call].requirements),
                            is_active |->
                                unwrap_or(client_calls[call].is_active, TRUE)]
                      ELSE job_postings[i]]
            /\ returns(call, "Ok")
    /\ UNCHANGED <<clients, client_frame>>

\* error.rs 43-47: the query a call is about to make fails, and ? returns
query_fails(call) ==
    /\ client_calls[call].pc \notin {"idle", "done"}
    /\ returns(call, "DatabaseError")
    /\ UNCHANGED <<job_postings, clients, client_frame>>

InitClients ==
    /\ clients = ClientIds
    /\ \E values \in SeqsUpTo([client_id : ClientIds, is_active : BOOLEAN], 1) :
          job_postings = client_job_rows(values)
    /\ client_calls = [call \in Calls |-> no_call]
    /\ workers = <<>>
    /\ matching_idle
    /\ scorers_idle
    /\ stats_idle
    /\ workers_idle
    /\ meetings_idle
    /\ pagination_idle

NextClients ==
    \E call \in Calls :
        \/ \E id \in ClientIds : call_delete_client(call, id)
        \/ delete_client_exists(call)
        \/ delete_client_active_jobs(call)
        \/ delete_client_delete(call)
        \/ \E job_request \in JobRequests : call_create_job(call, job_request)
        \/ create_job_client_exists(call)
        \/ create_job_insert(call)
        \/ \E id \in 1..MaxRows, job_request \in JobRequests :
              call_update_job(call, id, job_request)
        \/ update_job_exists(call)
        \/ update_job_client_exists(call)
        \/ update_job_update(call)
        \/ query_fails(call)

SpecClients == InitClients /\ [][NextClients]_vars

----------------------------------------------------------------------------
(* SpecWorkers: create_worker and update_worker called one after the other.    *)
(* A row of workers carries its email here.  An email is a String in the code:  *)
(* it is modelled by the address it spells once trimmed and lower-cased         *)
(* (0: a text that is no address) and by the form it is written in: "plain",    *)
(* "upper" (with a capital letter) or "padded" (with a blank around it).        *)

Addresses == 1..NumAddresses

Emails ==
    [address : Addresses, form : {"plain", "upper", "padded"}]
        \cup {[address |-> 0, form |-> "plain"]}

\* str::trim
trim(email) ==
    IF email.form = "padded" THEN [email EXCEPT !.form = "plain"] ELSE email

\* str::to_lowercase
to_lowercase(email) ==
    IF email.form = "upper" THEN [email EXCEPT !.form = "plain"] ELSE email

\* utils.rs 103-106: the text holds '@' and '.' and more than 5 characters
validate_email(email) == email.address # 0

\* models.rs 94-101: CreateWorkerRequest; name_present says whether name is
\* non-empty after trim, phone_valid whether phone is absent or passes
\* validate_phone.  Every email with one experience, one email with every
\* experience, and a request without a name and one with a phone that is none.
WorkerRequests ==
    [name_present : {TRUE}, email : Emails, phone_valid : {TRUE},
     skills : {<<2, 1, 1>>}, experience_years : {MaxYears}]
        \cup [name_present : {TRUE}, email : {[address |-> 1, form |-> "plain"]},
              phone_valid : {TRUE}, skills : {<<2, 1, 1>>},
              experience_years : (0 - 1)..MaxYears]
        \cup {[name_present |-> FALSE, email |-> [address |-> 1, form |-> "plain"],
               phone_valid |-> TRUE, skills |-> <<>>, experience_years |-> 0 - 1],
              [name_present |-> TRUE, email |-> [address |-> 1, form |-> "plain"],
               phone_valid |-> FALSE, skills |-> <<>>, experience_years |-> 0 - 1]}

\* What the database answers to the handler's queries when it can be reached
\* (Ok) or not (Err): every answer Ok, or the first, the second or the third Err
WorkerDbResults ==
    {[q \in 1..3 |-> IF q = failing THEN "Err" ELSE "Ok"] : failing \in 0..3}

\* A request and the database's answers while it is served: every request with
\* every answer Ok, and one request with every answer
WorkerInputs ==
    {<<worker_request, [q \in 1..3 |-> "Ok"]>> : worker_request \in WorkerRequests}
        \cup {<<[name_present |-> TRUE, email |-> [address |-> 1, form |-> "plain"],
                 phone_valid |-> TRUE, skills |-> <<2, 1, 1>>,
                 experience_years |-> MaxYears], db>> : db \in WorkerDbResults}

\* The validation without the test of experience_years
validate_worker_request_allowing_negative(worker_request) ==
    IF ~worker_request.name_present THEN Some("Worker name is required")
    ELSE IF ~validate_email(worker_request.email) THEN Some("Invalid email format")
    ELSE IF ~worker_request.phone_valid THEN Some("Invalid phone format")
    ELSE None

\* workers.rs 125-142 (186-203 in update_worker): the message of the BadRequest,
\* None for a request that passes
validate_worker_request(worker_request) ==
    IF ~worker_request.name_present THEN Some("Worker name is required")
    ELSE IF ~validate_email(worker_request.email) THEN Some("Invalid email format")
    ELSE IF ~worker_request.phone_valid THEN Some("Invalid phone format")
    ELSE IF worker_request.experience_years < 0
         THEN Some("Experience years cannot be negative")
    ELSE None

bad_request(message) == [status |-> "BadRequest", message |-> message]

worker_result(status) == [status |-> status, message |-> ""]

\* error.rs 43-47: AppError::DatabaseError(err), message standing for err
worker_database_error(err) == [status |-> "DatabaseError", message |-> err]

\* The variables the worker handlers leave alone
worker_frame ==
    <<job_postings, handler_vars, skill_vars, experience_vars, sort_vars,
      history_vars, stats_vars, client_vars, meeting_vars, pagination_vars>>

\* database.rs 32: email VARCHAR(255) UNIQUE: the statement fails when another
\* row holds the email
violates_unique_email(rows, id, email) ==
    \E i \in DOMAIN rows : rows[i].id # id /\ rows[i].email = email

\* workers.rs 121-179
create_worker(worker_request, db) ==
    LET invalid == validate_worker_request(worker_request)
        existing == Cardinality({i \in DOMAIN workers :
                                   workers[i].email = worker_request.email})
        skills == normalise(worker_request.skills)
        stored == [id |-> Len(workers) + 1,
                   email |-> to_lowercase(trim(worker_request.email)),
                   skills |-> skills,
                   experience_years |-> worker_request.experience_years]
        outcome ==
            IF invalid # None THEN <<bad_request(unwrap(invalid)), <<>>>>
            ELSE IF db[1] = "Err"
                 THEN <<worker_database_error("unreachable"), <<"Err">>>>
            ELSE IF existing > 0
                 THEN <<bad_request("Email already exists"), <<"Ok">>>>
            ELSE IF db[2] = "Err"
                 THEN <<worker_database_error("unreachable"), <<"Ok", "Err">>>>
            ELSE IF violates_unique_email(workers, 0, stored.email)
                 THEN <<worker_database_error("unique violation"), <<"Ok", "Err">>>>
            ELSE <<worker_result("Created"), <<"Ok", "Ok">>>>
    IN  /\ workers' = IF outcome[1].status = "Created"
                      THEN <<stored>> \o workers ELSE workers
        /\ worker_call' = Some([handler |-> "create_worker", id |-> 0,
                                request |-> worker_request,
                                query_results |-> outcome[2],
                                result |-> outcome[1]])
        /\ UNCHANGED worker_frame

\* workers.rs 181-254
update_worker(id, worker_request, db) ==
    LET invalid == validate_worker_request(worker_request)
        existing == Cardinality({i \in DOMAIN workers : workers[i].id = id})
        email_exists == Cardinality({i \in DOMAIN workers :
                                       /\ workers[i].email = worker_request.email
                                       /\ workers[i].id # id})
        skills == normalise(worker_request.skills)
        stored == [id |-> id,
                   email |-> to_lowercase(trim(worker_request.email)),
                   skills |-> skills,
                   experience_years |-> worker_request.experience_years]
        outcome ==
            IF invalid # None THEN <<bad_request(unwrap(invalid)), <<>>>>
            ELSE IF db[1] = "Err"
                 THEN <<worker_database_error("unreachable"), <<"Err">>>>
            ELSE IF existing = 0 THEN <<worker_result("NotFound"), <<"Ok">>>>
            ELSE IF db[2] = "Err"
                 THEN <<worker_database_error("unreachable"), <<"Ok", "Err">>>>
            ELSE IF email_exists > 0
                 THEN <<bad_request("Email already exists"), <<"Ok", "Ok">>>>
            ELSE IF db[3] = "Err"
                 THEN <<worker_database_error("unreachable"), <<"Ok", "Ok", "Err">>>>
            ELSE IF violates_unique_email(workers, id, stored.email)
                 THEN <<worker_database_error("unique violation"),
                        <<"Ok", "Ok", "Err">>>>
            ELSE <<worker_result("Ok"), <<"Ok", "Ok", "Ok">>>>
    IN  /\ workers' = IF outcome[1].status = "Ok"
                      THEN [i \in DOMAIN workers |->
                               IF workers[i].id = id THEN stored ELSE workers[i]]
                      ELSE workers
        /\ worker_call' = Some([handler |-> "update_worker", id |-> id,
                                request |-> worker_request,
                                query_results |-> outcome[2],
                                result |-> outcome[1]])
        /\ UNCHANGED worker_frame

\* database.rs 131-139: a sample row, worker Jane Smith with her email
seed_worker_row ==
    [id |-> 1, email |-> [address |-> 1, form |-> "plain"],
     skills |-> seed_worker.skills,
     experience_years |-> seed_worker.experience_years]

InitWorkers ==
    /\ workers \in {<<>>, <<seed_worker_row>>}
    /\ job_postings = <<>>
    /\ matching_idle
    /\ scorers_idle
    /\ stats_idle
    /\ clients_idle
    /\ workers_idle
    /\ meetings_idle
    /\ pagination_idle

NextWorkers ==
    \/ \E input \in WorkerInputs : create_worker(input[1], input[2])
    \/ \E id \in Addresses, input \in WorkerInputs :
          update_worker(id, input[1], input[2])

SpecWorkers == InitWorkers /\ [][NextWorkers]_vars

----------------------------------------------------------------------------
(* SpecMeetings: create_meeting, update_meeting, update_meeting_status and      *)
(* delete_meeting called one after the other.  Table clients holds ClientIds,   *)
(* table workers a sample row, table job_postings nothing; the id 0 is the id   *)
(* of no row.                                                                   *)

\* A status the handler accepts besides the four
valid_statuses_and_done ==
    {"scheduled", "completed", "cancelled", "rescheduled", "done"}

\* meetings.rs 314
valid_statuses == {"scheduled", "completed", "cancelled", "rescheduled"}

\* meetings.rs 310-312: request.get("status").and_then(|s| s.as_str()): None for
\* a body without the key or with a value that is no string
StatusBodies ==
    {None, Some(""), Some("done"), Some("Completed")}
        \cup {Some(status) : status \in valid_statuses}

\* A request that passes every test of create_meeting
plain_meeting_request ==
    [title_present |-> TRUE, in_future |-> TRUE, client_id |-> 1,
     worker_id |-> None, job_id |-> None]

\* models.rs 116-126: CreateMeetingRequest; title_present says whether title is
\* non-empty after trim, in_future whether scheduled_at is later than Utc::now().
\* The plain request for every client, and the plain request with one field
\* changed.
MeetingRequests ==
    {[plain_meeting_request EXCEPT !.client_id = id] : id \in ClientIds \cup {0}}
        \cup {[plain_meeting_request EXCEPT !.title_present = FALSE],
              [plain_meeting_request EXCEPT !.in_future = FALSE],
              [plain_meeting_request EXCEPT !.worker_id = Some(0)],
              [plain_meeting_request EXCEPT !.worker_id = Some(1)],
              [plain_meeting_request EXCEPT !.job_id = Some(0)]}

\* Whether the database can be reached while the request is served
MeetingDbResults == {"Ok", "Err"}

\* A request and the database's state: every request with the database
\* reachable, the plain request with it unreachable as well
MeetingInputs ==
    {<<meeting_request, "Ok">> : meeting_request \in MeetingRequests}
        \cup {<<plain_meeting_request, "Err">>}

\* The variables the meeting handlers leave alone
meeting_frame ==
    <<table_vars, handler_vars, skill_vars, experience_vars, sort_vars,
      history_vars, stats_vars, client_vars, worker_vars, pagination_vars>>

meeting_ids == {meetings[i].id : i \in DOMAIN meetings}

\* Uuid::new_v4(): an id no row has
new_meeting_id == IF meetings = <<>> THEN 1 ELSE meetings[Len(meetings)].id + 1

meeting_result(status) == [status |-> status, message |-> ""]

row_exists(rows, id) == \E i \in DOMAIN rows : rows[i].id = id

referenced_row_missing(rows, reference) ==
    reference # None /\ ~row_exists(rows, unwrap(reference))

meeting_called(handler, id, body, result) ==
    meeting_call' = Some([handler |-> handler, id |-> id, body |-> body,
                          result |-> result])

\* meetings.rs 151-228
create_meeting(meeting_request, db) ==
    LET result ==
            IF ~meeting_request.title_present
            THEN bad_request("Meeting title is required")
            ELSE IF ~meeting_request.in_future
            THEN bad_request("Meeting must be scheduled in the future")
            ELSE IF db = "Err" THEN worker_database_error("unreachable")
            ELSE IF meeting_request.client_id \notin clients
            THEN bad_request("Client not found")
            ELSE IF referenced_row_missing(workers, meeting_request.worker_id)
            THEN bad_request("Worker not found")
            ELSE IF referenced_row_missing(job_postings, meeting_request.job_id)
            THEN bad_request("Job not found")
            ELSE meeting_result("Created")
    IN  /\ result.status = "Created" => new_meeting_id <= MaxRows
        /\ meetings' =
              IF result.status = "Created"
              THEN Append(meetings, [id |-> new_meeting_id,
                                     client_id |-> meeting_request.client_id,
                                     status |-> "scheduled"])
              ELSE meetings
        /\ meeting_called("create_meeting", 0, None, result)
        /\ UNCHANGED meeting_frame

\* meetings.rs 230-303; database.rs 73: the UPDATE fails when job_id references
\* no row of job_postings, which the handler does not test
update_meeting(id, meeting_request, db) ==
    LET result ==
            IF ~meeting_request.title_present
            THEN bad_request("Meeting title is required")
            ELSE IF db = "Err" THEN worker_database_error("unreachable")
            ELSE IF id \notin meeting_ids THEN meeting_result("NotFound")
            ELSE IF meeting_request.client_id \notin clients
            THEN bad_request("Client not found")
            ELSE IF referenced_row_missing(workers, meeting_request.worker_id)
            THEN bad_request("Worker not found")
            ELSE IF referenced_row_missing(job_postings, meeting_request.job_id)
            THEN worker_database_error("foreign key violation")
            ELSE meeting_result("Ok")
    IN  /\ meetings' =
              IF result.status = "Ok"
              THEN [i \in DOMAIN meetings |->
                       IF meetings[i].id = id
                       THEN [meetings[i] EXCEPT
                                !.client_id = meeting_request.client_id]
                       ELSE meetings[i]]
              ELSE meetings
        /\ meeting_called("update_meeting", id, None, result)
        /\ UNCHANGED meeting_frame

\* meetings.rs 305-347
update_meeting_status(id, body, db) ==
    LET result ==
            IF body = None THEN bad_request("Status is required")
            ELSE IF unwrap(body) \notin valid_statuses
            THEN bad_request("Invalid status")
            ELSE IF db = "Err" THEN worker_database_error("unreachable")
            ELSE IF id \notin meeting_ids THEN meeting_result("NotFound")
            ELSE meeting_result("Ok")
    IN  /\ meetings' =
              IF result.status = "Ok"
              THEN [i \in DOMAIN meetings |->
                       IF meetings[i].id = id
                       THEN [meetings[i] EXCEPT !.status = unwrap(body)]
                       ELSE meetings[i]]
              ELSE meetings
        /\ meeting_called("update_meeting_status", id, body, result)
        /\ UNCHANGED meeting_frame

\* meetings.rs 349-377
delete_meeting(id, db) ==
    LET result ==
            IF db = "Err" THEN worker_database_error("unreachable")
            ELSE IF id \notin meeting_ids THEN meeting_result("NotFound")
            ELSE meeting_result("Ok")
    IN  /\ meetings' =
              IF result.status = "Ok"
              THEN SelectSeq(meetings, LAMBDA meeting : meeting.id # id)
              ELSE meetings
        /\ meeting_called("delete_meeting", id, None, result)
        /\ UNCHANGED meeting_frame

InitMeetings ==
    /\ meetings = <<>>
    /\ meeting_call = None
    /\ clients = ClientIds
    /\ client_calls = <<>>
    /\ workers = <<seed_worker_row>>
    /\ job_postings = <<>>
    /\ matching_idle
    /\ scorers_idle
    /\ stats_idle
    /\ workers_idle
    /\ pagination_idle

NextMeetings ==
    \/ \E input \in MeetingInputs : create_meeting(input[1], input[2])
    \/ \E id \in 1..MaxRows, input \in MeetingInputs :
          update_meeting(id, input[1], input[2])
    \/ \E id \in 1..MaxRows, body \in StatusBodies, db \in MeetingDbResults :
          update_meeting_status(id, body, db)
    \/ \E id \in 1..MaxRows, db \in MeetingDbResults : delete_meeting(id, db)

SpecMeetings == InitMeetings /\ [][NextMeetings]_vars

----------------------------------------------------------------------------
(* SpecPagination: PaginationParams::new applied to pages and limits.  A u32 is *)
(* modelled at its width of 32 bits, as two limbs of 16 bits <<high, low>>.     *)
(* An operation that overflows panics in a build with overflow checks (debug)   *)
(* and wraps modulo 2^32 in a build without (release).                          *)

Limb == 2 ^ 16

u32_MAX == <<Limb - 1, Limb - 1>>

\* A number below 2^16 as a u32
small_u32(n) == <<0, n>>

u32_lt(a, b) == a[1] < b[1] \/ (a[1] = b[1] /\ a[2] < b[2])

\* Ord::min
u32_min(a, b) == IF u32_lt(b, a) THEN b ELSE a

\* a - b: the difference modulo 2^32, and whether it overflowed
u32_sub(a, b) ==
    LET borrow == IF a[2] < b[2] THEN 1 ELSE 0
        low == a[2] - b[2] + borrow * Limb
        high == a[1] - b[1] - borrow
    IN  [value |-> <<high % Limb, low>>, overflow |-> u32_lt(a, b)]

\* The product of a u32 and a number of at most 16 bits, as three limbs; the
\* right factor is at most MaxPageLimit where the model multiplies
wide_product(a, b) ==
    LET low == a[2] * b[2]
        high == a[1] * b[2] + low \div Limb
    IN  <<high \div Limb, high % Limb, low % Limb>>

\* a * b: the product modulo 2^32, and whether it overflowed
u32_mul(a, b) ==
    LET product == wide_product(a, b)
    IN  [value |-> <<product[2], product[3]>>, overflow |-> product[1] # 0]

\* What an arithmetic operation of the function yields: its value, or a panic
\* where it overflows and the build checks for that
arithmetic(operation, profile) ==
    IF operation.overflow /\ profile = "debug"
    THEN None
    ELSE Some(operation.value)

\* utils.rs 49-56
PaginationParams_new(page_option, limit_option, profile) ==
    LET page == unwrap_or(page_option, small_u32(DefaultPage))
        limit == u32_min(unwrap_or(limit_option, small_u32(DefaultPageLimit)),
                         small_u32(MaxPageLimit))
        difference == arithmetic(u32_sub(page, small_u32(1)), profile)
    IN  IF difference = None
        THEN [status |-> "panic", message |-> "attempt to subtract with overflow"]
        ELSE LET offset == arithmetic(u32_mul(unwrap(difference), limit), profile)
             IN  IF offset = None
                 THEN [status |-> "panic",
                       message |-> "attempt to multiply with overflow"]
                 ELSE [status |-> "Ok", page |-> Some(page), limit |-> Some(limit),
                       offset |-> Some(unwrap(offset))]

\* The first page, pages around the one whose offset no longer fits with a
\* limit of 100 (42,949,674 = 655 * 2^16 + 23,594), page 0 and the largest
PageValues ==
    {None, Some(small_u32(0)), Some(small_u32(1)), Some(small_u32(2)),
     Some(<<655, 23593>>), Some(<<655, 23594>>), Some(u32_MAX)}

LimitValues ==
    {None, Some(small_u32(0)), Some(small_u32(1)), Some(small_u32(20)),
     Some(small_u32(100)), Some(small_u32(101)), Some(<<1, 0>>), Some(u32_MAX)}

\* Whether the build checks integer overflow (the dev profile) or not (release)
BuildProfiles == {"debug", "release"}

pagination_frame ==
    <<table_vars, handler_vars, skill_vars, experience_vars, sort_vars,
      history_vars, stats_vars, client_vars, worker_vars, meeting_vars>>

apply_PaginationParams_new ==
    /\ pagination_result = None
    /\ pagination_result' =
          Some(PaginationParams_new(page_arg, limit_arg, build_profile))
    /\ UNCHANGED <<page_arg, limit_arg, build_profile, pagination_frame>>

InitPagination ==
    /\ page_arg \in PageValues
    /\ limit_arg \in LimitValues
    /\ build_profile \in BuildProfiles
    /\ pagination_result = None
    /\ job_postings = <<>>
    /\ workers = <<>>
    /\ matching_idle
    /\ scorers_idle
    /\ stats_idle
    /\ clients_idle
    /\ workers_idle
    /\ meetings_idle

NextPagination == apply_PaginationParams_new

SpecPagination == InitPagination /\ [][NextPagination]_vars

----------------------------------------------------------------------------
(* SpecSkill: calculate_skill_match_score applied to every pair of lists *)

apply_calculate_skill_match_score ==
    /\ skill_result = None
    /\ skill_result' = Some(calculate_skill_match_score(job_skills, worker_skills))
    /\ UNCHANGED <<table_vars, handler_vars, job_skills, worker_skills,
                   experience_vars, sort_vars, history_vars, stats_vars,
                   client_vars, worker_vars, meeting_vars, pagination_vars>>

InitSkill ==
    /\ job_skills \in RequestLists
    /\ worker_skills \in RequestLists
    /\ skill_result = None
    /\ job_postings = <<>>
    /\ workers = <<>>
    /\ request = no_request
    /\ locals = no_locals
    /\ response = no_response
    /\ query_results = <<>>
    /\ years_experience_arg = 0
    /\ required_years_arg = 0
    /\ experience_result = None
    /\ scores = <<>>
    /\ sort_result = None
    /\ recorded = None
    /\ stats_idle
    /\ clients_idle
    /\ workers_idle
    /\ meetings_idle
    /\ pagination_idle

NextSkill == apply_calculate_skill_match_score

SpecSkill == InitSkill /\ [][NextSkill]_vars

----------------------------------------------------------------------------
(* SpecExperience: calculate_experience_score applied to every pair of years *)

\* The i32 values of the first argument, negative ones included
ExperienceYears == (0 - MaxYears)..(MaxRequiredYears + 1)

\* The i32 values of the second argument: negative, zero and positive
RequiredYearsValues == (0 - MaxRequiredYears)..MaxRequiredYears

apply_calculate_experience_score ==
    /\ experience_result = None
    /\ experience_result' =
           Some(calculate_experience_score(years_experience_arg, required_years_arg))
    /\ UNCHANGED <<table_vars, handler_vars, skill_vars, years_experience_arg,
                   required_years_arg, sort_vars, history_vars, stats_vars,
                   client_vars, worker_vars, meeting_vars, pagination_vars>>

InitExperience ==
    /\ years_experience_arg \in ExperienceYears
    /\ required_years_arg \in RequiredYearsValues
    /\ experience_result = None
    /\ job_postings = <<>>
    /\ workers = <<>>
    /\ request = no_request
    /\ locals = no_locals
    /\ response = no_response
    /\ query_results = <<>>
    /\ job_skills = <<>>
    /\ worker_skills = <<>>
    /\ skill_result = None
    /\ scores = <<>>
    /\ sort_result = None
    /\ recorded = None
    /\ stats_idle
    /\ clients_idle
    /\ workers_idle
    /\ meetings_idle
    /\ pagination_idle

NextExperience == apply_calculate_experience_score

SpecExperience == InitExperience /\ [][NextExperience]_vars

----------------------------------------------------------------------------
(* SpecSort: the sort of matching.rs 75 and 151 applied to vectors of every    *)
(* f64 score, the values that are not finite included                          *)

F64Sample == {Zero, FromInt(50), Hundred, NaN, Infinity, NegInfinity}

\* matching.rs 66-70: the elements of match_scores that carry the given scores
scored_elements(score_list) ==
    [i \in DOMAIN score_list |->
        [entity |-> i, score |-> score_list[i], matching_skills |-> <<>>]]

scores_of(v) == [i \in DOMAIN v |-> v[i].score]

\* matching.rs 75, 151: match_scores.sort_by(...)
apply_sort_by ==
    /\ sort_result = None
    /\ LET match_scores == scored_elements(scores)
       IN  sort_result' =
               IF sort_by_panics(match_scores)
               THEN Some([outcome |-> "panicked", sorted |-> <<>>])
               ELSE Some([outcome |-> "returned",
                          sorted |-> scores_of(sort_by_score_desc(match_scores))])
    /\ UNCHANGED <<table_vars, handler_vars, skill_vars, experience_vars, scores,
                   history_vars, stats_vars, client_vars, worker_vars,
                   meeting_vars, pagination_vars>>

InitSort ==
    /\ scores \in SeqsUpTo(F64Sample, MaxScores)
    /\ sort_result = None
    /\ job_postings = <<>>
    /\ workers = <<>>
    /\ request = no_request
    /\ locals = no_locals
    /\ response = no_response
    /\ query_results = <<>>
    /\ job_skills = <<>>
    /\ worker_skills = <<>>
    /\ skill_result = None
    /\ years_experience_arg = 0
    /\ required_years_arg = 0
    /\ experience_result = None
    /\ recorded = None
    /\ stats_idle
    /\ clients_idle
    /\ workers_idle
    /\ meetings_idle
    /\ pagination_idle

NextSort == apply_sort_by

SpecSort == InitSort /\ [][NextSort]_vars

----------------------------------------------------------------------------
(* What the properties read *)

Ok == response.status = "Ok"

\* The job and the worker of a scored pool element, in either direction
job_of(entity) ==
    IF request.handler = "find_matches" THEN response.anchor ELSE entity

worker_of(entity) ==
    IF request.handler = "find_matches" THEN entity ELSE response.anchor

\* 0.7 * skill score + 0.3 * experience score against 3 required years
weighted_score(job, worker) ==
    RatAdd(RatMul(<<7, 10>>,
                  calculate_skill_match_score(job.requirements, worker.skills)),
           RatMul(<<3, 10>>,
                  calculate_experience_score(worker.experience_years, 3)))

\* The min_score and the limit the request asks for
requested_min_score ==
    IF request.query.min_score = None THEN Zero ELSE request.query.min_score[1]

requested_limit ==
    IF request.query.limit = None
    THEN 50
    ELSE IF request.query.limit[1] > 100 THEN 100 ELSE request.query.limit[1]

\* The pool elements whose score meets the requested min_score
survivor_indices ==
    {k \in DOMAIN locals.pool :
        RatGe(weighted_score(job_of(locals.pool[k]), worker_of(locals.pool[k])),
              requested_min_score)}

\* The position in the pool, as loaded, of a returned entity
pool_index(entity) == CHOOSE k \in DOMAIN locals.pool : locals.pool[k].id = entity.id

----------------------------------------------------------------------------
(* C1: in both directions the score of every scored element is exactly        *)
(* 0.7 * calculate_skill_match_score(job.requirements, worker.skills) +       *)
(* 0.3 * calculate_experience_score(worker.experience_years, 3).              *)
C1_CompositeScore ==
    Ok =>
        /\ \A i \in DOMAIN locals.survivors :
              locals.survivors[i].score =
                  weighted_score(job_of(locals.survivors[i].entity),
                                 worker_of(locals.survivors[i].entity))
        /\ \A i \in DOMAIN response.match_scores :
              response.match_scores[i].score =
                  weighted_score(job_of(response.match_scores[i].entity),
                                 worker_of(response.match_scores[i].entity))

\* A worker-to-jobs response holding a job that the worker's skills meet in part
\* and whose experience score is not the skill score
C1_Witness ==
    /\ Ok
    /\ request.handler = "find_jobs_for_worker"
    /\ \E i \in DOMAIN response.match_scores :
          LET job == response.match_scores[i].entity
              worker == response.anchor
              skill == calculate_skill_match_score(job.requirements, worker.skills)
              experience == calculate_experience_score(worker.experience_years, 3)
          IN  /\ RatGt(skill, Zero)
              /\ RatGt(experience, skill)
              /\ RatGt(Hundred, experience)

(* C2: the returned list is sorted by score in non-increasing order, and for   *)
(* the job requiring Go, SQL, Docker with worker A = (Go, SQL; 4 years) and     *)
(* worker B = (Go, SQL, Docker; 1 year), min_score 0 and limit 10 return B, A.  *)
C2_SortedDescending ==
    Ok =>
        /\ \A i \in 1..(Len(response.match_scores) - 1) :
              RatGe(response.match_scores[i].score, response.match_scores[i + 1].score)
        /\ ( /\ request.handler = "find_matches"
             /\ job_postings = job_rows(<<scenario_job>>)
             /\ request.query = [min_score |-> Some(Zero), limit |-> Some(10)]
             /\ workers \in {worker_rows(<<scenario_worker_A, scenario_worker_B>>),
                             worker_rows(<<scenario_worker_B, scenario_worker_A>>)} )
           => LET A == CHOOSE w \in Range(workers) : w.experience_years = 4
                  B == CHOOSE w \in Range(workers) : w.experience_years = 1
              IN  response.matched = <<B, A>>

\* The scenario with A loaded before B: the sort has exchanged them
C2_Witness ==
    /\ Ok
    /\ request.handler = "find_matches"
    /\ request.query = [min_score |-> Some(Zero), limit |-> Some(10)]
    /\ job_postings = job_rows(<<scenario_job>>)
    /\ workers = worker_rows(<<scenario_worker_A, scenario_worker_B>>)
    /\ response.matched = <<workers[2], workers[1]>>
    /\ response.match_scores[1].score = FromInt(80)
    /\ response.match_scores[2].score = <<230, 3>>

(* C3: two returned elements of identical score are in the order in which the  *)
(* pool, as loaded, holds them.                                                *)
C3_StableUnderTies ==
    Ok =>
        LET position == [i \in DOMAIN response.match_scores |->
                            pool_index(response.match_scores[i].entity)]
        IN  \A i, j \in DOMAIN response.match_scores :
                ( /\ i < j
                  /\ response.match_scores[i].score = response.match_scores[j].score )
                => position[i] < position[j]

\* Two tied elements returned in pool order, after an element of higher score
\* that the pool holds behind them
C3_Witness ==
    /\ Ok
    /\ LET position == [i \in DOMAIN response.match_scores |->
                           pool_index(response.match_scores[i].entity)]
       IN  \E h, i, j \in DOMAIN response.match_scores :
               /\ h < i
               /\ i < j
               /\ response.match_scores[i].score = response.match_scores[j].score
               /\ RatGt(response.match_scores[h].score, response.match_scores[i].score)
               /\ position[i] < position[j]
               /\ position[j] < position[h]

(* C4: a pool element is kept before the truncation if and only if its score   *)
(* is >= min_score, so no returned element has a score below min_score; with   *)
(* min_score omitted the threshold is 0 and no pool element is filtered out,   *)
(* a worker with no skill in common with the job included.                     *)
C4_RespectsMinScore ==
    Ok =>
        LET kept == survivor_indices
            survivors == Range(locals.survivors)
            survivor_entities == {ms.entity : ms \in survivors}
        IN  /\ locals.min_score = requested_min_score
            /\ \A k \in DOMAIN locals.pool :
                  locals.pool[k] \in survivor_entities <=> k \in kept
            /\ \A i \in DOMAIN response.match_scores :
                  /\ RatGe(response.match_scores[i].score, requested_min_score)
                  /\ response.match_scores[i] \in survivors
            /\ request.query.min_score = None =>
                  /\ Len(locals.survivors) = Len(locals.pool)
                  /\ Len(locals.pool) <= requested_limit =>
                        Range(locals.pool) \subseteq Range(response.matched)

\* A request with a min_score that one pool element meets exactly and another
\* misses: the first is returned, the second is not
C4_Witness ==
    /\ Ok
    /\ request.query.min_score = Some(FromInt(80))
    /\ \E i \in DOMAIN response.match_scores :
          response.match_scores[i].score = FromInt(80)
    /\ LET kept == survivor_indices
       IN  \E k \in DOMAIN locals.pool :
               /\ k \notin kept
               /\ RatGt(weighted_score(job_of(locals.pool[k]),
                                       worker_of(locals.pool[k])),
                        Zero)
               /\ locals.pool[k] \notin Range(response.matched)

(* C5: the number of returned elements is at most the effective limit, which   *)
(* is the requested limit capped at 100, or 50 when no limit is given; the     *)
(* returned elements are the first `limit` elements of the sorted survivors,   *)
(* none for a limit of 0.                                                      *)
C5_RespectsLimit ==
    Ok =>
        /\ locals.limit = requested_limit
        /\ Len(response.match_scores) <= requested_limit
        /\ Len(response.match_scores) <= Len(locals.sorted)
        /\ Len(response.match_scores) = requested_limit
              \/ Len(response.match_scores) = Len(locals.sorted)
        /\ \A i \in DOMAIN response.match_scores :
              response.match_scores[i] = locals.sorted[i]
        /\ Len(response.matched) = Len(response.match_scores)
        /\ request.query.limit = Some(0) => response.match_scores = <<>>

\* A request for more than 100 elements over more than 100 survivors: 100 are
\* returned
C5_Witness ==
    /\ Ok
    /\ request.query.limit # None
    /\ request.query.limit[1] > 100
    /\ Len(locals.sorted) > 100
    /\ Len(response.match_scores) = 100

----------------------------------------------------------------------------
(* calculate_skill_match_score, under SpecSkill *)

\* 100 * |set(required) \cap set(candidate)| / |set(required)|
set_ratio(required, candidate) ==
    RatMul(RatDiv(FromInt(Cardinality(Range(required) \cap Range(candidate))),
                  FromInt(Cardinality(Range(required)))),
           Hundred)

has_repeated_tag(list) == Cardinality(Range(list)) < Len(list)

(* C7: for a non-empty required list the score is                              *)
(* 100 * |set(required) \cap set(candidate)| / |set(required)|, so a tag       *)
(* repeated in either list does not change the score.                          *)
C7_SetRatio ==
    (skill_result # None /\ job_skills # <<>>)
        => skill_result[1] = set_ratio(job_skills, worker_skills)

(* C8: for every non-empty required list, with or without repeated tags,       *)
(* calculate_skill_match_score(required, required) is 100.                     *)
C8_SelfMatchIsFull ==
    (skill_result # None /\ job_skills # <<>> /\ worker_skills = job_skills)
        => skill_result[1] = Hundred

(* C9: for all required and candidate lists, of any length and with or without *)
(* repeated tags, the score v satisfies 0 <= v <= 100.                         *)
C9_SkillScoreInRange ==
    skill_result # None
        => /\ RatGe(skill_result[1], Zero)
           /\ RatGe(Hundred, skill_result[1])

\* A score strictly between 0 and 100 for two lists that both repeat a tag
C9_Witness ==
    /\ skill_result # None
    /\ has_repeated_tag(job_skills)
    /\ has_repeated_tag(worker_skills)
    /\ RatGt(skill_result[1], Zero)
    /\ RatGt(Hundred, skill_result[1])

----------------------------------------------------------------------------
(* C10: for an empty required list calculate_skill_match_score is 0 for every  *)
(* candidate list, the empty one included, so a job with no requirements gives *)
(* every worker the score 0.3 * experience score.                              *)
C10_EmptyRequirementsScoreZero ==
    /\ \A candidate \in RequestLists :
          calculate_skill_match_score(<<>>, candidate) = Zero
    /\ Ok =>
          \A i \in DOMAIN locals.survivors :
              LET job == job_of(locals.survivors[i].entity)
                  worker == worker_of(locals.survivors[i].entity)
              IN  job.requirements = <<>> =>
                      locals.survivors[i].score =
                          RatMul(<<3, 10>>,
                                 calculate_experience_score(worker.experience_years, 3))

\* A job without requirements matched against a worker who has skills and one
\* year of experience: the score is 10
C10_Witness ==
    /\ Ok
    /\ request.handler = "find_matches"
    /\ response.anchor.requirements = <<>>
    /\ \E i \in DOMAIN response.match_scores :
          /\ response.match_scores[i].entity.skills # <<>>
          /\ response.match_scores[i].entity.experience_years = 1
          /\ response.match_scores[i].score = FromInt(10)

----------------------------------------------------------------------------
(* calculate_experience_score, under SpecExperience *)

(* C11: for every actual years >= 0 and every required years, zero and         *)
(* negative ones included, the experience score is 100 when actual >= required *)
(* (the required years as given, not clamped) and otherwise                    *)
(* 100 * actual / max(required, 1).                                            *)
C11_ExperienceScore ==
    (experience_result # None /\ years_experience_arg >= 0) =>
        IF years_experience_arg >= required_years_arg
        THEN experience_result[1] = <<100, 1>>
        ELSE /\ experience_result[1][2] > 0
             /\ experience_result[1][1] * Max(required_years_arg, 1)
                    = 100 * years_experience_arg * experience_result[1][2]

\* No years against a requirement of no years: 100, where the clamped
\* requirement of 1 would give 0
C11_Witness ==
    /\ years_experience_arg = 0
    /\ required_years_arg = 0
    /\ experience_result = Some(Hundred)

(* C12: for fixed required years the experience score is non-decreasing in the *)
(* actual years from 0 on, and it is 100 for every actual >= required.         *)
C12_ExperienceMonotone ==
    (experience_result # None /\ years_experience_arg >= 0) =>
        /\ \A fewer \in 0..years_experience_arg :
              RatGe(experience_result[1],
                    calculate_experience_score(fewer, required_years_arg))
        /\ years_experience_arg >= required_years_arg
              => experience_result[1] = Hundred

\* More years than required: 100, as for exactly the required years, and more
\* than for one year fewer than required
C12_Witness ==
    /\ required_years_arg > 1
    /\ years_experience_arg > required_years_arg
    /\ experience_result = Some(Hundred)
    /\ calculate_experience_score(required_years_arg, required_years_arg) = Hundred
    /\ RatGt(Hundred,
             calculate_experience_score(required_years_arg - 1, required_years_arg))

----------------------------------------------------------------------------
(* The results of the handlers, under Spec *)

\* A finite f64 within [0, 100]
finite_in_range(score) ==
    /\ score[2] > 0
    /\ score[1] >= 0
    /\ score[1] <= 100 * score[2]

\* The scores of a job and a worker for all lists a request may carry, lists
\* with repeated tags included, and all non-negative years
scores_of_all_lists ==
    {pair_score([requirements |-> required], [skills |-> candidate, experience_years |-> years]) :
        required \in RequestLists, candidate \in RequestLists, years \in 0..(MaxYears + 1)}

(* C13: every score of every result of find_matches and find_jobs_for_worker   *)
(* is finite and within [0, 100], whatever the workers' non-negative years and *)
(* the job's requirements, empty lists and lists with repeated tags included.  *)
C13_ScoreInRange ==
    /\ \A score \in scores_of_all_lists : finite_in_range(score)
    /\ Ok =>
          /\ \A i \in DOMAIN locals.survivors :
                finite_in_range(locals.survivors[i].score)
          /\ \A i \in DOMAIN response.match_scores :
                finite_in_range(response.match_scores[i].score)

\* A result that holds both ends of the range: a score of 100 and a score of 0
C13_Witness ==
    /\ Ok
    /\ \E i, j \in DOMAIN response.match_scores :
          /\ response.match_scores[i].score = Hundred
          /\ response.match_scores[j].score = Zero

\* The tag list of the anchor and of a pool element: requirements of a job,
\* skills of a worker
anchor_list ==
    IF request.handler = "find_matches"
    THEN response.anchor.requirements
    ELSE response.anchor.skills

entity_list(entity) ==
    IF request.handler = "find_matches" THEN entity.skills ELSE entity.requirements

\* All results the handler has built: before and after the sort and the truncation
all_results == Range(locals.survivors) \cup Range(response.match_scores)

\* The list restricted to the given tags, in the list's order
restricted_to(list, tags) == SelectSeq(list, LAMBDA tag : tag \in tags)

is_sorted(list) == \A k \in 1..(Len(list) - 1) : list[k] < list[k + 1]

(* C14: in every result of either direction every element of matching_skills   *)
(* is in the job's requirements and in the worker's skills.                    *)
C14_MatchingSkillsInBoth ==
    Ok =>
        \A result \in all_results :
            Range(result.matching_skills)
                \subseteq (Range(job_of(result.entity).requirements)
                              \cap Range(worker_of(result.entity).skills))

\* A result whose worker has a tag the job does not require besides a tag the
\* job requires: the first is left out, the second is listed
C14_Witness ==
    /\ Ok
    /\ request.handler = "find_matches"
    /\ \E i \in DOMAIN response.match_scores :
          LET result == response.match_scores[i]
              required == Range(response.anchor.requirements)
              skills == Range(result.entity.skills)
          IN  /\ result.matching_skills # <<>>
              /\ skills \ required # {}
              /\ Range(result.matching_skills) = required \cap skills

(* C15: in both directions matching_skills is the sequence of the pool         *)
(* element's tags that the anchor has too, in the pool element's order: the    *)
(* worker's skills in find_matches, the job's requirements in                  *)
(* find_jobs_for_worker.                                                       *)
C15_PoolEntityOrder ==
    Ok =>
        \A result \in all_results :
            result.matching_skills =
                SelectSeq(entity_list(result.entity),
                          LAMBDA tag : tag \in Range(anchor_list))

\* A worker of the sample rows matched against a job a handler stored: the tags
\* come in the worker's order, which is not the job's
C15_Witness ==
    /\ Ok
    /\ request.handler = "find_matches"
    /\ Len(response.match_scores) = 1
    /\ response.anchor.requirements = <<1, 2, 3>>
    /\ response.match_scores[1].entity.skills = <<3, 1, 2>>
    /\ response.match_scores[1].matching_skills = <<3, 1, 2>>

(* C16, as claimed: matching_skills lists the common tags in the order in      *)
(* which they occur in the anchor's list: the job's requirements in            *)
(* find_matches, the worker's skills in find_jobs_for_worker.                  *)
C16_AnchorOrder ==
    Ok =>
        \A result \in all_results :
            result.matching_skills =
                restricted_to(anchor_list, Range(result.matching_skills))

(* C16, amended: matching_skills lists the common tags in the order in which   *)
(* they occur in the pool element's list; that is the anchor's order too when  *)
(* both lists are sorted and without repeats, as the handlers store them.      *)
C16_EntityOrder ==
    Ok =>
        \A result \in all_results :
            /\ result.matching_skills =
                   restricted_to(entity_list(result.entity),
                                 Range(result.matching_skills))
            /\ (is_sorted(anchor_list) /\ is_sorted(entity_list(result.entity)))
                   => result.matching_skills =
                          restricted_to(anchor_list, Range(result.matching_skills))

\* A job of the sample rows matched against a worker a handler stored: the tags
\* come in the job's order, which is not the worker's
C16_Witness ==
    /\ Ok
    /\ request.handler = "find_jobs_for_worker"
    /\ Len(response.match_scores) = 1
    /\ response.anchor.skills = <<1, 2, 3>>
    /\ response.match_scores[1].entity.requirements = <<3, 1, 2>>
    /\ response.match_scores[1].matching_skills = <<3, 1, 2>>

\* The ranking of the handler that served the request, applied to the given pool
\* with the same anchor: matching.rs 49-78 in find_matches, 125-154 in
\* find_jobs_for_worker
rank(anchor, pool, min_score, limit) ==
    LET survivors ==
            IF request.handler = "find_matches"
            THEN score_workers(anchor, pool, effective_min_score(min_score))
            ELSE score_jobs(anchor, pool, effective_min_score(min_score))
    IN  truncate(sort_by_score_desc(survivors), effective_limit(limit))

(* C17: ranking is idempotent: the returned elements, given back as the pool   *)
(* with the same anchor, min_score 0 and a limit of their number, are returned *)
(* again, all of them and in the same order.                                   *)
C17_RankingIdempotent ==
    Ok =>
        LET again == rank(response.anchor, response.matched,
                          Some(Zero), Some(Len(response.matched)))
        IN  /\ entities_of(again) = response.matched
            /\ again = response.match_scores

\* A ranking that has moved an element of higher score in front of two tied
\* elements the pool holds before it: ranking its result again moves nothing
C17_Witness ==
    /\ Ok
    /\ \E h, i, j \in DOMAIN response.match_scores :
          /\ h < i
          /\ i < j
          /\ response.match_scores[i].score = response.match_scores[j].score
          /\ RatGt(response.match_scores[h].score, response.match_scores[i].score)
          /\ response.match_scores[i].entity.id < response.match_scores[h].entity.id
    /\ entities_of(rank(response.anchor, response.matched,
                        Some(Zero), Some(Len(response.matched))))
          = response.matched

\* The anchor the request names, as the tables hold it: an active job for
\* find_matches, a worker for find_jobs_for_worker
anchor_rows ==
    IF request.handler = "find_matches"
    THEN {j \in Range(job_postings) : j.id = request.id /\ j.is_active}
    ELSE {w \in Range(workers) : w.id = request.id}

\* The pool the request is about, as the tables hold it: all workers for
\* find_matches, the active jobs for find_jobs_for_worker
pool_rows ==
    IF request.handler = "find_matches"
    THEN Range(workers)
    ELSE {j \in Range(job_postings) : j.is_active}

\* The score of a pool row against the anchor the tables hold
row_score(anchor, row) ==
    IF request.handler = "find_matches"
    THEN weighted_score(anchor, row)
    ELSE weighted_score(row, anchor)

requested == request.handler # "none"

queries_succeeded == "Err" \notin Range(query_results)

empty_result ==
    /\ response.matched = <<>>
    /\ response.match_scores = <<>>
    /\ response.match_count = 0

(* C18: once the anchor is resolved the ranking does not fail: the response is *)
(* a success, and it has an empty list and the count 0 when the pool is empty  *)
(* and when min_score excludes every pool element, in both directions.         *)
C18_RankingNeverFails ==
    (requested /\ queries_succeeded /\ anchor_rows # {}) =>
        /\ response.status = "Ok"
        /\ pool_rows = {} => empty_result
        /\ (\A anchor \in anchor_rows, row \in pool_rows :
                ~RatGe(row_score(anchor, row), requested_min_score))
              => empty_result

\* A min_score above the score of each element of a pool that is not empty:
\* a success with no element
C18_Witness ==
    /\ requested
    /\ anchor_rows # {}
    /\ pool_rows # {}
    /\ request.query.min_score = Some(FromInt(101))
    /\ response.status = "Ok"
    /\ empty_result

nothing_scored ==
    /\ locals = no_locals
    /\ response.anchor = None
    /\ empty_result

(* C19, as claimed: the entry points fail with NotFound and with nothing else: *)
(* find_matches exactly when no job of the given id exists or that job is not  *)
(* active, find_jobs_for_worker exactly when no worker of the given id exists; *)
(* then no pool element is scored and no result list is produced.              *)
C19_FailsOnlyNotFound ==
    requested =>
        /\ response.status \in {"Ok", "NotFound"}
        /\ response.status = "NotFound" <=> anchor_rows = {}
        /\ response.status = "NotFound" => nothing_scored

(* C19, amended: the entry points fail with NotFound or, when one of their     *)
(* queries fails, with DatabaseError, and with nothing else.  When the query   *)
(* for the anchor succeeds, find_matches returns NotFound exactly when no job  *)
(* of the given id exists or that job is not active, find_jobs_for_worker      *)
(* exactly when no worker of the given id exists.  In every failure no pool    *)
(* element is scored and no result list is produced.                           *)
C19_FailsNotFoundOrDatabaseError ==
    requested =>
        /\ response.status \in {"Ok", "NotFound", "DatabaseError"}
        /\ response.status = "DatabaseError" <=> ~queries_succeeded
        /\ query_results[1] = "Ok" =>
              (response.status = "NotFound" <=> anchor_rows = {})
        /\ response.status = "NotFound" => query_results = <<"Ok">>
        /\ response.status # "Ok" => nothing_scored

\* find_matches for a job that exists but is not active, with a worker in the
\* table: NotFound, and the worker is not scored
C19_Witness ==
    /\ request.handler = "find_matches"
    /\ \E j \in Range(job_postings) : j.id = request.id /\ ~j.is_active
    /\ workers # <<>>
    /\ response.status = "NotFound"
    /\ nothing_scored

----------------------------------------------------------------------------
(* The sort of the results, under SpecSort *)

(* C20: the comparator of the sort orders every two score values, the ones     *)
(* that are not finite included, and puts those last; so the sort returns for  *)
(* every list of scores, without a panic.                                      *)
C20_TotalOrderNeverPanics ==
    sort_result # None =>
        /\ \A i, j \in DOMAIN scores :
              i # j => partial_cmp(scores[i], scores[j]) # None
        /\ sort_result[1].outcome = "returned"
        /\ Len(sort_result[1].sorted) = Len(scores)
        /\ \A i, j \in DOMAIN sort_result[1].sorted :
              (i < j /\ is_finite(sort_result[1].sorted[j]))
                  => /\ is_finite(sort_result[1].sorted[i])
                     /\ RatGe(sort_result[1].sorted[i], sort_result[1].sorted[j])

----------------------------------------------------------------------------
(* Repeated requests, under SpecRepeat *)

C25_DirectionsAgree ==
    ( /\ recorded # None
      /\ recorded[1].response.status = "Ok"
      /\ response.status = "Ok"
      /\ recorded[1].request.handler # request.handler ) =>
        \A i \in DOMAIN recorded[1].response.match_scores,
           k \in DOMAIN response.match_scores :
            LET earlier == recorded[1].response.match_scores[i]
                later == response.match_scores[k]
            IN  ( /\ earlier.entity.id = response.anchor.id
                  /\ later.entity.id = recorded[1].response.anchor.id )
                => /\ earlier.score = later.score
                   /\ Range(earlier.matching_skills) = Range(later.matching_skills)

\* A job of the sample rows and a worker a handler stored, matched in both
\* directions: the same score, the same tags, listed in different orders
C25_Witness ==
    /\ recorded # None
    /\ recorded[1].request.handler = "find_matches"
    /\ request.handler = "find_jobs_for_worker"
    /\ Len(recorded[1].response.match_scores) = 1
    /\ Len(response.match_scores) = 1
    /\ recorded[1].response.match_scores[1].score = response.match_scores[1].score
    /\ recorded[1].response.match_scores[1].matching_skills = <<1, 2, 3>>
    /\ response.match_scores[1].matching_skills = <<3, 1, 2>>

----------------------------------------------------------------------------
(* The statistics, under SpecStats *)

stats_succeeded == stats_call # None /\ stats_call[1].response.status = "Ok"

stats_queries_succeeded ==
    stats_call # None /\ stats_call[1].query_results = [q \in 1..4 |-> "Ok"]

active_job_indices == {i \in DOMAIN job_postings : job_postings[i].is_active}

RECURSIVE total_size(_, _)
total_size(lists, indices) ==
    IF indices = {} THEN 0
    ELSE LET i == CHOOSE i \in indices : TRUE
         IN  Len(lists[i]) + total_size(lists, indices \ {i})

requirements_lists == [i \in DOMAIN job_postings |-> job_postings[i].requirements]

skills_lists == [i \in DOMAIN workers |-> workers[i].skills]

stats_totals_right ==
    LET reported == stats_call[1].response
    IN  /\ reported.total_active_jobs = Cardinality(active_job_indices)
        /\ reported.total_workers = Len(workers)
        /\ reported.potential_matches =
              reported.total_active_jobs * reported.total_workers
        /\ (active_job_indices = {} /\ workers = <<>>) =>
              /\ reported.total_active_jobs = 0
              /\ reported.total_workers = 0
              /\ reported.potential_matches = 0
              /\ reported.average_requirements_per_job = Zero
              /\ reported.average_skills_per_worker = Zero

(* C22 as stated: get_matching_stats always succeeds, and reports               *)
(* total_active_jobs = the number of active jobs, total_workers = the number of *)
(* workers and potential_matches = their product; with no active job and no     *)
(* worker every statistic is zero.                                              *)
C22_AlwaysSucceeds ==
    stats_call # None => stats_succeeded /\ stats_totals_right

(* C22 as the code has it: get_matching_stats succeeds exactly when its four    *)
(* queries succeed, and then reports the totals, their product, and zeros for   *)
(* empty tables; when a query fails its result is DatabaseError.                *)
C22_SucceedsWhenQueriesSucceed ==
    stats_call # None =>
        IF stats_queries_succeeded
        THEN stats_succeeded /\ stats_totals_right
        ELSE stats_call[1].response = stats_database_error

\* The scenario of the specification: 2 active jobs, 3 workers, 6 potential matches
C22_Witness ==
    /\ stats_succeeded
    /\ stats_call[1].response.total_active_jobs = 2
    /\ stats_call[1].response.total_workers = 3
    /\ stats_call[1].response.potential_matches = 6

(* C23: average_requirements_per_job is the sum of the sizes of the             *)
(* requirements lists of the active jobs divided by the number of active jobs   *)
(* whose list is not empty (0 when there is none); inactive jobs count nowhere. *)
C23_AverageRequirements ==
    stats_succeeded =>
        LET counted == {i \in active_job_indices :
                           job_postings[i].requirements # <<>>}
        IN  stats_call[1].response.average_requirements_per_job =
                IF counted = {} THEN Zero
                ELSE Rat(total_size(requirements_lists, active_job_indices),
                         Cardinality(counted))

\* An active job without requirements beside an active job with three: 3.0
C23_Witness ==
    /\ stats_succeeded
    /\ \E i, k \in active_job_indices :
          /\ job_postings[i].requirements = <<>>
          /\ Len(job_postings[k].requirements) = 3
    /\ stats_call[1].response.average_requirements_per_job = FromInt(3)

(* C24 as stated: average_skills_per_worker is the sum of the sizes of the      *)
(* skill lists of all workers divided by the number of workers, a worker        *)
(* without skills counting with size 0.                                         *)
C24_AverageOverAllWorkers ==
    stats_succeeded =>
        stats_call[1].response.average_skills_per_worker =
            IF workers = <<>> THEN Zero
            ELSE Rat(total_size(skills_lists, DOMAIN workers), Len(workers))

----------------------------------------------------------------------------
(* Deleting a client, under SpecClients *)

(* C26: a client that has an active job posting is never deleted: under every   *)
(* interleaving of delete_client with create_job and update_job, when the row   *)
(* of a client is removed no active job posting of that client exists, so the   *)
(* cascading delete removes no active job.                                      *)
C26_NoActiveJobDeleted ==
    [][ \A id \in clients \ clients' :
           \A i \in DOMAIN job_postings :
               job_postings[i].client_id = id => ~job_postings[i].is_active ]_vars

----------------------------------------------------------------------------
(* The worker handlers, under SpecWorkers *)

stored_email_of(email) == to_lowercase(trim(email))

database_reached(call) == call.result # worker_database_error("unreachable")

(* C27: create_worker with an email that, trimmed and lower-cased, is the       *)
(* stored email of an existing worker is rejected with BadRequest("Email        *)
(* already exists") and adds no row; and no two workers ever have the same      *)
(* stored email.  Stated for requests that pass the validation of the other     *)
(* fields, served while the database can be reached.                            *)
C27_DuplicateEmailIsBadRequest ==
    /\ [](\A i, k \in DOMAIN workers :
              workers[i].email = workers[k].email => i = k)
    /\ [][ ( /\ worker_call' # None
             /\ worker_call'[1].handler = "create_worker"
             /\ validate_worker_request(worker_call'[1].request) = None
             /\ database_reached(worker_call'[1])
             /\ \E i \in DOMAIN workers :
                   workers[i].email = stored_email_of(worker_call'[1].request.email) )
           => /\ worker_call'[1].result = bad_request("Email already exists")
              /\ workers' = workers ]_vars

(* C30: every stored worker has experience_years >= 0, so the experience score  *)
(* the matching endpoints compute for it lies in [0, 100]; a request with a     *)
(* negative experience_years is rejected with BadRequest and changes nothing.   *)
C30_ExperienceNeverNegative ==
    /\ [](\A i \in DOMAIN workers :
              /\ workers[i].experience_years >= 0
              /\ finite_in_range(
                     calculate_experience_score(workers[i].experience_years,
                                                RequiredYears)))
    /\ [][ ( /\ worker_call' # None
             /\ worker_call'[1].request.experience_years < 0 )
           => /\ worker_call'[1].result.status = "BadRequest"
              /\ workers' = workers ]_vars

\* A request with negative experience_years and nothing else wrong was rejected
\* for that, while the table holds a worker the handlers stored
C30_Witness ==
    /\ worker_call # None
    /\ worker_call[1].result = bad_request("Experience years cannot be negative")
    /\ \E i \in DOMAIN workers : workers[i].skills = <<1, 2>>

----------------------------------------------------------------------------
(* The meeting handlers, under SpecMeetings *)

the_four_statuses == {"scheduled", "completed", "cancelled", "rescheduled"}

(* C28: every stored meeting has a status among scheduled, completed,           *)
(* cancelled and rescheduled: create_meeting stores scheduled, update_meeting   *)
(* leaves the status as it is, and update_meeting_status with any other value   *)
(* returns BadRequest and leaves the meetings as they are.                      *)
C28_StatusAmongTheFour ==
    /\ [](\A i \in DOMAIN meetings : meetings[i].status \in the_four_statuses)
    /\ [][ meeting_call' # None =>
             LET call == meeting_call'[1]
             IN  /\ call.handler = "create_meeting" =>
                       \A i \in DOMAIN meetings' :
                           meetings'[i].id \notin {meetings[k].id : k \in DOMAIN meetings}
                               => meetings'[i].status = "scheduled"
                 /\ call.handler = "update_meeting" =>
                       /\ Len(meetings') = Len(meetings)
                       /\ \A i \in DOMAIN meetings :
                             meetings'[i].status = meetings[i].status
                 /\ ( /\ call.handler = "update_meeting_status"
                      /\ call.body \notin {Some(status) :
                                               status \in the_four_statuses} )
                       => /\ call.result.status = "BadRequest"
                          /\ meetings' = meetings ]_vars

\* A status that is none of the four has been refused while a meeting is
\* completed and another one scheduled
C28_Witness ==
    /\ meeting_call # None
    /\ meeting_call[1].handler = "update_meeting_status"
    /\ meeting_call[1].body = Some("done")
    /\ meeting_call[1].result = bad_request("Invalid status")
    /\ \E i, k \in DOMAIN meetings :
          /\ meetings[i].status = "completed"
          /\ meetings[k].status = "scheduled"

----------------------------------------------------------------------------
(* PaginationParams::new, under SpecPagination *)

(* C29: for every page and limit, absent or not, PaginationParams::new yields   *)
(* limit' = min(limit or 20, 100) and offset = (page' - 1) * limit' with        *)
(* page' = page or 1, computed without underflow or overflow of a u32: page 0   *)
(* and very large pages too yield a well-defined offset that is not negative.   *)
C29_NoUnderflowNoOverflow ==
    pagination_result # None =>
        LET page == IF page_arg = None THEN <<0, 1>> ELSE page_arg[1]
            limit == IF limit_arg = None THEN <<0, 20>>
                     ELSE IF u32_lt(<<0, 100>>, limit_arg[1]) THEN <<0, 100>>
                     ELSE limit_arg[1]
            exact == wide_product(u32_sub(page, <<0, 1>>).value, limit)
        IN  /\ pagination_result[1].status = "Ok"
            /\ pagination_result[1].page = Some(page)
            /\ pagination_result[1].limit = Some(limit)
            /\ page # <<0, 0>>
            /\ exact[1] = 0
            /\ pagination_result[1].offset = Some(<<exact[2], exact[3]>>)

====
